---- MODULE Spec2Model ----
(***************************************************************************)
(* Model of the MCP server's protocol pipeline (src/mcp_server/app).       *)
(*                                                                         *)
(* The module holds several specifications over one set of variables, one  *)
(* per part of the program:                                                *)
(*   SpecGenSeq  generate() calls on the shared ContentGenerationProtocol, *)
(*               one call at a time                                        *)
(*   SpecGen     the same calls interleaved at their suspension points     *)
(*   SpecSearch  SearchService.search on the shared instance               *)
(*   SpecParams  the parameter resolution of generate()                    *)
(*   SpecPipe    the /generate and /chat request handlers                  *)
(*   SpecKnow    KnowledgeAccessProtocol.retrieve_knowledge                *)
(* A specification leaves the variables of the other parts at rest.        *)
(***************************************************************************)
EXTENDS Integers, Sequences, FiniteSets, TLC

VARIABLES
    \* --- ContentGenerationProtocol / LLMService (shared instance) ---
    default_key,        \* settings.LLM_API_KEY as read at construction (llm.py:19)
    api_key,            \* generation_protocol.llm_service.api_key
    test_mode,          \* generation_protocol.llm_service.test_mode
    inputs,             \* the arguments each generate() call is made with
    calls,              \* the generate() coroutines, one record per call
    generation_history, \* generation_protocol.generation_history
    \* --- SearchService (shared instance) ---
    search_provider,    \* settings.SEARCH_PROVIDER
    search_api_key,     \* search_service.api_key
    search_engine_id,   \* search_service.search_engine_id
    search_log,         \* one record per finished search() call
    \* --- /generate and /chat handlers (api/generate.py, api/chat.py) ---
    requests,           \* the handler coroutines, one record per request
    kp_sources,         \* knowledge_protocol.sources: the request they are of
    rp_steps,           \* reasoning_protocol.reasoning_steps: the requests
                        \* whose steps it holds, in order
    \* --- KnowledgeAccessProtocol (protocols/knowledge.py) ---
    retrieval,          \* the retrieve_knowledge coroutine
    sources,            \* self.sources
    hash_order,         \* the order this process's string hashes give to the
                        \* members of a set
    decision,           \* one _should_perform_external_search evaluation
    \* --- AnalyticalReasoningProtocol (protocols/reasoning.py) ---
    analysis,           \* the analyze coroutine
    reasoning_steps,    \* self.reasoning_steps
    \* --- CommunicationProtocol (protocols/communication.py) ---
    formatting, \* one format_response call
    \* --- AdaptiveLearningProtocol: feedback (protocols/learning.py, adaptive_learning.py) ---
    feedback_table, \* the rows of the feedback table
    metrics_record, \* the feedback_summary row of learning_metrics
    submissions, \* the process_feedback coroutines
    adaptive_feedback, \* the last adaptive_learning.process_feedback call
    \* --- AdaptiveLearningProtocol.manage_context (protocols/learning.py) ---
    context_table, \* conversation_context: the messages stored per session
    last_manage, \* the last manage_context call
    \* --- LLMService._extract_generated_text (services/llm.py) ---
    extraction, \* one _extract_generated_text call
    \* --- API keys and endpoints (api/auth.py, core/auth.py, api/feedback.py) ---
    api_keys, \* the api_keys store of api/auth.py, by key id
    now, \* datetime.utcnow(), in days
    endpoint_call \* the request an endpoint is answering

genVars    == <<default_key, api_key, test_mode, inputs, calls, generation_history>>
searchVars == <<search_provider, search_api_key, search_engine_id, search_log>>
pipeVars   == <<requests, kp_sources, rp_steps>>
knowVars   == <<retrieval, sources, hash_order>>
decideVars == <<decision>>
reasonVars == <<analysis, reasoning_steps>>
formatVars == <<formatting>>
learnVars == <<feedback_table, metrics_record, submissions, adaptive_feedback>>
contextVars == <<context_table, last_manage>>
extractVars == <<extraction>>
authVars == <<api_keys, now, endpoint_call>>
vars       == <<genVars, searchVars, pipeVars, knowVars, decideVars, reasonVars, formatVars, learnVars, contextVars, extractVars, authVars>>

(***************************************************************************)
(* Python values.                                                          *)
(***************************************************************************)
\* A string that matters only by its prefix is a sequence of parts; "" is <<>>.
None     == <<"<None>">>
EmptyStr == <<>>

\* An int n is <<"int", n>>, a list is <<"list", items...>>; a float is an int
\* of tenths.
PyInt(n)  == <<"int", n>>
EmptyList == <<"list">>

\* bool(x) of a scalar or list: None, "", 0 and [] are falsy.
Truthy(x) == x \notin {None, EmptyStr, PyInt(0), EmptyList}

\* A dict is a function from the keys it holds to their values.
EmptyDict == [key \in {} |-> None]

\* bool(d), d.update(e), d[k] = v, d.get(k), d.get(k, default). DictGet is
\* d.get(k) of a key that holds a dict: a missing key gives None, which is
\* falsy as {} is.
DictTruthy(d)      == DOMAIN d # {}
Update(d, e)       == [key \in DOMAIN d \cup DOMAIN e |->
                          IF key \in DOMAIN e THEN e[key] ELSE d[key]]
Put(d, k, v)       == [key \in DOMAIN d \cup {k} |-> IF key = k THEN v ELSE d[key]]
Get(d, k)          == IF k \in DOMAIN d THEN d[k] ELSE None
GetOr(d, k, dflt)  == IF k \in DOMAIN d THEN d[k] ELSE dflt
DictGet(d, k)      == IF k \in DOMAIN d THEN d[k] ELSE EmptyDict

\* str.startswith on the first part of a key.
StartsWith(s, p) == Len(s) > 0 /\ s[1] = p

(***************************************************************************)
(* Bounds.                                                                 *)
(***************************************************************************)
MaxCalls       == 2     \* generate() calls in one behaviour
MaxSearchCalls == 3     \* search() calls in one behaviour
MaxRequests    == 2     \* /generate and /chat requests in one behaviour
MaxHits        == 2     \* results the vector search returns
MaxExternalHits == 1    \* results the external search returns

(***************************************************************************)
(* LLMService                                                              *)
(***************************************************************************)
\* The credential the settings object yields: the literal fallback "sk-test",
\* or a configured live key.
SkTest     == <<"sk-test">>
ServerLive == <<"sk-live", "server">>
ServerKeys == {SkTest, ServerLive}

\* Credentials a caller can send with a request (ChatRequest.api_key).
ClientKeys == {<<"sk-live", "c1">>, <<"sk-live", "c2">>, <<"sk-test", "c3">>}
Overrides  == ClientKeys \cup {None, EmptyStr}

\* stop_after_attempt(3) on generate_text.
MaxAttempts == 3

\* LLMService.__init__: self.api_key = api_key or settings value.
LLMServiceKey(k, settingsKey) == IF Truthy(k) THEN k ELSE settingsKey

\* LLMService.__init__: test mode is fixed at construction from the key.
TestModeOf(k) == StartsWith(k, "sk-dummy") \/ StartsWith(k, "sk-test")

(***************************************************************************)
(* ContentGenerationProtocol.generate: parameters                          *)
(***************************************************************************)
\* generation.py:62-63: the defaults of context.get; the temperature in tenths.
DefaultMaxTokens         == 1000
DefaultTemperatureTenths == 7

\* llm.py:20: LLMService.default_model.
DefaultModel == <<"gpt-3.5-turbo">>

\* generation.py:117-144.
prepare_generation_params(reasoning_result, knowledge_context, context) ==
    LET p0 == Put(EmptyDict, "format", GetOr(context, "format", <<"text">>))
        p1 == Put(p0, "domain", Get(context, "domain"))
        p2 == IF Truthy(Get(reasoning_result, "suggested_format"))
              THEN Put(p1, "format", reasoning_result["suggested_format"])
              ELSE p1
        p3 == IF Truthy(Get(reasoning_result, "tone"))
              THEN Put(p2, "tone", reasoning_result["tone"])
              ELSE p2
        p4 == IF Truthy(Get(knowledge_context, "sources"))
              THEN Put(p3, "sources", knowledge_context["sources"])
              ELSE p3
    IN  IF DictTruthy(DictGet(context, "options"))
        THEN Update(p4, context["options"])
        ELSE p4

\* generation.py:62, 66-69.
ResolveMaxTokens(context, llm_config) ==
    IF DictTruthy(llm_config) /\ Truthy(Get(llm_config, "max_tokens"))
    THEN llm_config["max_tokens"]
    ELSE GetOr(context, "max_tokens", PyInt(DefaultMaxTokens))

\* Mutant: the override's temperature is tested for truth, as max_tokens is.
ResolveTemperature_Truthy(context, llm_config) ==
    IF DictTruthy(llm_config) /\ Truthy(Get(llm_config, "temperature"))
    THEN llm_config["temperature"]
    ELSE GetOr(context, "temperature", PyInt(DefaultTemperatureTenths))

\* generation.py:63, 66, 70-71.
ResolveTemperature(context, llm_config) ==
    IF DictTruthy(llm_config) /\ Get(llm_config, "temperature") # None
    THEN llm_config["temperature"]
    ELSE GetOr(context, "temperature", PyInt(DefaultTemperatureTenths))

\* generation.py:61, 66-67.
ResolveModel(llm_config) ==
    IF DictTruthy(llm_config) THEN Get(llm_config, "model") ELSE None

\* Mutant: the override's options replace the assembled options.
ResolveOptions_Replace(params, llm_config) ==
    IF DictTruthy(llm_config) /\ DictTruthy(DictGet(llm_config, "options"))
    THEN llm_config["options"]
    ELSE params

\* generation.py:64, 66, 72-74.
ResolveOptions(params, llm_config) ==
    IF DictTruthy(llm_config) /\ DictTruthy(DictGet(llm_config, "options"))
    THEN Update(params, llm_config["options"])
    ELSE params

\* llm.py:49: model = model or self.default_model.
BackendModel(model) == IF Truthy(model) THEN model ELSE DefaultModel

\* generation.py:52-74 and 89-95: the arguments generate_text is called with,
\* and the model of the payload (llm.py:49, 92-100).
GenerateTextArgs(inp) ==
    LET params == prepare_generation_params(inp.reasoning_result,
                                            inp.knowledge_context, inp.context)
    IN  [model         |-> ResolveModel(inp.llm_config),
         max_tokens    |-> ResolveMaxTokens(inp.context, inp.llm_config),
         temperature   |-> ResolveTemperature(inp.context, inp.llm_config),
         options       |-> ResolveOptions(params, inp.llm_config),
         backend_model |-> BackendModel(ResolveModel(inp.llm_config))]

\* The dicts generate() writes into.  The inputs are "context",
\* "context.options", "reasoning_result", "knowledge_context", "llm_config"
\* and "llm_config.options"; "params" is the dict _prepare_generation_params
\* creates.
\* Mutant: the parameters are collected in the options map of the context.
ParamsObject_ContextOptions == "context.options"
\* generation.py:123: params = {} is a new dict.
ParamsObject == "params"
\* generation.py:52, 64: options = generation_params names the same dict.
OptionsObject == ParamsObject

\* generation.py:126-142 and 72-74: the in-place writes of a call, each with
\* the dict written into and the entries written.
WritesOfGenerate(inp) ==
    <<[object  |-> ParamsObject,
       entries |-> prepare_generation_params(inp.reasoning_result,
                                             inp.knowledge_context, inp.context)],
      [object  |-> OptionsObject,
       entries |-> IF DictTruthy(inp.llm_config)
                      /\ DictTruthy(DictGet(inp.llm_config, "options"))
                   THEN inp.llm_config["options"] ELSE EmptyDict]>>

\* The inputs after one write: a write into a dict the inputs hold shows in
\* them, a write into "params" does not.
ApplyWrite(inp, w) ==
    CASE w.object = "context.options" ->
             [inp EXCEPT !.context =
                  Put(@, "options", Update(DictGet(@, "options"), w.entries))]
      [] w.object = "llm_config.options" ->
             [inp EXCEPT !.llm_config =
                  Put(@, "options", Update(DictGet(@, "options"), w.entries))]
      [] w.object \in {"context", "reasoning_result", "knowledge_context", "llm_config"} ->
             [inp EXCEPT ![w.object] = Update(@, w.entries)]
      [] OTHER -> inp

\* The inputs of a call once generate() has run its writes.
InputsAfterGenerate(inp) ==
    ApplyWrite(ApplyWrite(inp, WritesOfGenerate(inp)[1]), WritesOfGenerate(inp)[2])

\* generate(prompt, {}, {}, {}): no context, no reasoning, no override.
EmptyInput ==
    [context |-> EmptyDict, reasoning_result |-> EmptyDict,
     knowledge_context |-> EmptyDict, llm_config |-> EmptyDict]

\* The dicts that hold key k with one of vals, or do not hold it.
Optional(k, vals) == {EmptyDict} \cup {Put(EmptyDict, k, v) : v \in vals}
\* Every union of a dict of S with a dict of T (their keys are disjoint).
Both(S, T) == {Update(d, e) : d \in S, e \in T}

\* The arguments the parameter specification draws from.
ContextOptions == {[tone |-> <<"casual">>, x |-> PyInt(9)],
                   [format |-> <<"json">>]}
ConfigOptions  == {[x |-> PyInt(1)],
                   [x |-> PyInt(2), tone |-> <<"warm">>]}
Contexts ==
    Both(Both(Both(Both(Optional("max_tokens", {None, PyInt(500)}),
                        Optional("temperature", {PyInt(7)})),
                   Optional("format", {<<"html">>})),
              Optional("domain", {<<"technical">>})),
         Optional("options", ContextOptions))
ReasoningResults ==
    Both(Optional("suggested_format", {<<"markdown">>}),
         Optional("tone", {<<"formal">>}))
KnowledgeContexts == Optional("sources", {<<"list", "s1">>})
LLMConfigs ==
    Both(Both(Both(Optional("model", {EmptyStr, <<"gpt-4">>}),
                   Optional("max_tokens", {PyInt(0), PyInt(200)})),
              Optional("temperature", {PyInt(0), PyInt(2)})),
         Optional("options", ConfigOptions))
ParamInputs ==
    [context : Contexts, reasoning_result : ReasoningResults,
     knowledge_context : KnowledgeContexts, llm_config : LLMConfigs]

(***************************************************************************)
(* ContentGenerationProtocol.generate: the call                            *)
(***************************************************************************)
Calls == 1..MaxCalls

IdleCall == [pc |-> "idle", key |-> None, original_api_key |-> None,
             own |-> FALSE, attempt |-> 0, sent |-> None,
             outcome |-> "none", before |-> None, after |-> None,
             args |-> EmptyDict]

InFlight(c) == calls[c].pc \in {"posted", "backoff"}
NoCallInFlight == \A c \in Calls : ~InFlight(c)

\* generation.py:77-80: the backup taken when a caller key is given.
OriginalApiKey(k, current) == IF Truthy(k) THEN current ELSE None

\* generation.py:78-82: the shared field after the swap.
InstalledKey(k, current) == IF Truthy(k) THEN k ELSE current

\* Mutant: the finally block forgets the restore.
KeyAfterFinally_NoRestore(original, current) == current

\* generation.py:96-99: the finally block.
KeyAfterFinally(original, current) ==
    IF Truthy(original) THEN original ELSE current

\* generation.py:86 and llm.py:119-124: the credential of the Authorization
\* header. A call with a caller key uses a fresh LLMService built from it; a
\* call without one uses the shared instance and reads its field at send time.
HeaderKey(own, k, sharedKey) ==
    IF own THEN LLMServiceKey(k, default_key) ELSE sharedKey

\* The prompt generate() call c is given and the text its backend call returns.
PromptOf(c) == <<"prompt", c>>
ContentOf(c) == <<"content", c>>

\* generation.py:175-179: the entry of a call (the timestamp and the params
\* copied from the context are left out).
history_entry(c) == [prompt |-> PromptOf(c), content |-> ContentOf(c)]

\* Mutant: the entry is stored in the finally block, whether or not
\* generate_text returned.
HistoryAfter_InFinally(history, c, returned) == Append(history, history_entry(c))

\* generation.py:101-115: _store_generation_history is reached only when
\* generate_text returned; an exception goes to the handler, which re-raises.
HistoryAfter(history, c, returned) ==
    IF returned THEN Append(history, history_entry(c)) ELSE history

\* Mutant: every call reads the flag of the shared instance.
ServiceTestMode_Shared(own, k) == test_mode

\* generation.py:86 and llm.py:26: the test_mode flag of the service the call
\* uses, fixed when that service was built from its key.
ServiceTestMode(own, k) ==
    IF own THEN TestModeOf(LLMServiceKey(k, default_key)) ELSE test_mode

\* generation.py:50-95 up to the first suspension: parameters, swap, choice of
\* the service, first attempt of generate_text. In test mode generate_text
\* returns the mock text without suspending (llm.py:52-54), so the call
\* completes within this step.
GenStart(c, k) ==
    /\ calls[c].pc = "idle"
    /\ LET orig      == OriginalApiKey(k, api_key)
           installed == InstalledKey(k, api_key)
           own       == Truthy(k)
           svcTest   == ServiceTestMode(own, k)
       IN  IF svcTest
           THEN /\ api_key' = KeyAfterFinally(orig, installed)
                /\ calls' = [calls EXCEPT ![c] =
                       [pc |-> "done", key |-> k, original_api_key |-> orig,
                        own |-> own, attempt |-> 1, sent |-> None,
                        outcome |-> "mock", before |-> api_key,
                        after |-> KeyAfterFinally(orig, installed),
                        args |-> GenerateTextArgs(inputs[c])]]
                /\ generation_history' = HistoryAfter(generation_history, c, TRUE)
           ELSE /\ api_key' = installed
                /\ calls' = [calls EXCEPT ![c] =
                       [pc |-> "posted", key |-> k, original_api_key |-> orig,
                        own |-> own, attempt |-> 1,
                        sent |-> HeaderKey(own, k, installed),
                        outcome |-> "none", before |-> api_key,
                        after |-> None,
                        args |-> GenerateTextArgs(inputs[c])]]
                /\ UNCHANGED generation_history
    /\ inputs' = [inputs EXCEPT ![c] = InputsAfterGenerate(inputs[c])]
    /\ UNCHANGED <<default_key, test_mode>>

\* Mutant: the stop condition lets one attempt more through.
stop_after_attempt_OneMore(attempt) == attempt >= MaxAttempts + 1

\* llm.py:28: @retry(stop=stop_after_attempt(3)): no retry once the attempt
\* that failed was the third.
stop_after_attempt(attempt) == attempt >= MaxAttempts

\* llm.py:65-78 and generation.py:96-115: the backend answers. A 200 ends the
\* call; a failure is retried after a backoff until the third attempt, then
\* the error leaves generate() through the finally block.
GenResponse(c, ok) ==
    /\ calls[c].pc = "posted"
    /\ IF ok
       THEN /\ api_key' = KeyAfterFinally(calls[c].original_api_key, api_key)
            /\ calls' = [calls EXCEPT ![c].pc = "done",
                                      ![c].outcome = "returned",
                                      ![c].after =
                   KeyAfterFinally(calls[c].original_api_key, api_key)]
            /\ generation_history' = HistoryAfter(generation_history, c, TRUE)
       ELSE IF ~stop_after_attempt(calls[c].attempt)
       THEN /\ calls' = [calls EXCEPT ![c].pc = "backoff"]
            /\ UNCHANGED <<api_key, generation_history>>
       ELSE /\ api_key' = KeyAfterFinally(calls[c].original_api_key, api_key)
            /\ calls' = [calls EXCEPT ![c].pc = "done",
                                      ![c].outcome = "raised",
                                      ![c].after =
                   KeyAfterFinally(calls[c].original_api_key, api_key)]
            /\ generation_history' = HistoryAfter(generation_history, c, FALSE)
    /\ UNCHANGED <<default_key, test_mode, inputs>>

\* llm.py:28 and 56-69: after the backoff the next attempt builds its headers
\* again and sends.
GenRetry(c) ==
    /\ calls[c].pc = "backoff"
    /\ calls' = [calls EXCEPT ![c].pc = "posted",
                              ![c].attempt = calls[c].attempt + 1,
                              ![c].sent = HeaderKey(calls[c].own, calls[c].key, api_key)]
    /\ UNCHANGED <<default_key, api_key, test_mode, inputs, generation_history>>

\* The shared instance as built at import (chat.py:48, generation.py:13-16).
GenInit ==
    /\ default_key \in ServerKeys
    /\ api_key = LLMServiceKey(None, default_key)
    /\ test_mode = TestModeOf(LLMServiceKey(None, default_key))
    /\ inputs = [c \in Calls |-> EmptyInput]
    /\ calls = [c \in Calls |-> IdleCall]
    /\ generation_history = <<>>

\* One call with drawn arguments against a live backend.
ParamsInit ==
    /\ default_key = ServerLive
    /\ api_key = LLMServiceKey(None, default_key)
    /\ test_mode = TestModeOf(LLMServiceKey(None, default_key))
    /\ \E inp \in ParamInputs :
           inputs = [c \in Calls |-> IF c = 1 THEN inp ELSE EmptyInput]
    /\ calls = [c \in Calls |-> IdleCall]
    /\ generation_history = <<>>

GenIdle ==
    /\ default_key = SkTest
    /\ api_key = SkTest
    /\ test_mode = TRUE
    /\ inputs = [c \in Calls |-> EmptyInput]
    /\ calls = [c \in Calls |-> IdleCall]
    /\ generation_history = <<>>

(***************************************************************************)
(* SearchService                                                           *)
(***************************************************************************)
SearchProviders == {"google", "bing", "duckduckgo", "perplexity"}
SearchKeys      == {<<"search", "k1">>, <<"search", "k2">>}
EngineIds       == {<<"cx", "e1">>}

\* search.py:51-54: the caller's credentials are stored in the instance.
SearchKeyAfter(k, current) == IF Truthy(k) THEN k ELSE current
EngineAfter(e, provider, current) ==
    IF Truthy(e) /\ provider # "perplexity" THEN e ELSE current

\* search.py:57-73: the branch taken with the instance's fields.
SearchPath(key, engine, provider) ==
    IF ~Truthy(key) \/ (~Truthy(engine) /\ provider # "perplexity")
    THEN "mock"
    ELSE provider

\* search.py:46-78: one search() call, from entry to return.
Search(k, e) ==
    /\ Len(search_log) < MaxSearchCalls
    /\ search_api_key' = SearchKeyAfter(k, search_api_key)
    /\ search_engine_id' = EngineAfter(e, search_provider, search_engine_id)
    /\ search_log' = Append(search_log,
           [api_key |-> k, search_engine_id |-> e,
            path |-> SearchPath(SearchKeyAfter(k, search_api_key),
                                EngineAfter(e, search_provider, search_engine_id),
                                search_provider),
            used_key |-> SearchKeyAfter(k, search_api_key)])
    /\ UNCHANGED search_provider

SearchInit ==
    /\ search_provider \in SearchProviders
    /\ search_api_key = None
    /\ search_engine_id = None
    /\ search_log = <<>>

SearchIdle ==
    /\ search_provider = "google"
    /\ search_api_key = None
    /\ search_engine_id = None
    /\ search_log = <<>>

(***************************************************************************)
(* The /generate and /chat handlers                                        *)
(***************************************************************************)
Requests == 1..MaxRequests

\* A local variable of the handler that no assignment has bound yet.
Unbound == <<"<unbound>">>

NewRequest ==
    [endpoint |-> "none", pc |-> "new", has_user |-> FALSE,
     session_given |-> FALSE, client_key |-> None, api_key |-> Unbound,
     knowledge_context |-> None, reasoning_result |-> None,
     generated_content |-> None, log |-> <<>>, error |-> "none",
     status |-> 0, response |-> EmptyDict]

\* A stage is awaited: the handler is suspended in it until it returns.
CallStage(req, stage, args) ==
    [req EXCEPT !.pc = stage,
                !.log = Append(@, [stage |-> stage, ev |-> "call", val |-> args])]
ReturnStage(req, stage, val) ==
    [req EXCEPT !.log = Append(@, [stage |-> stage, ev |-> "return", val |-> val])]

\* Mutant: the handler answers with what it has instead of raising.
HandlerError_PartialResponse(req, exc) ==
    [req EXCEPT !.pc = "responded", !.error = exc, !.status = 200,
                !.response = [request_id |-> <<"request_id">>]]

\* generate.py:96-98 and chat.py:125-127: any exception in the handler body
\* becomes HTTPException(500).
HandlerError(req, exc) ==
    [req EXCEPT !.pc = "failed", !.error = exc, !.status = 500]

\* generate.py:68 and chat.py:77: what analyze is given.
AnalyzeArgs(req) == <<req.knowledge_context>>

\* Mutant: generate is called as execute() calls it, without the reasoning
\* result.
GenerateArgs_NoReasoning(req) == <<None, req.knowledge_context>>

\* generate.py:71-76 and chat.py:84-91: what generate is given.
GenerateArgs(req) == <<req.reasoning_result, req.knowledge_context>>

\* generate.py:79-83 and chat.py:94-99: what format_response is given.
FormatArgs(req) == <<req.generated_content>>

\* generate.py:49-65: request id, context, then retrieve_knowledge is awaited.
ReceiveGenerate(r) ==
    /\ requests[r].pc = "new"
    /\ requests' = [requests EXCEPT ![r] =
           CallStage([requests[r] EXCEPT !.endpoint = "generate", !.has_user = TRUE],
                     "knowledge", <<>>)]
    /\ UNCHANGED <<kp_sources, rp_steps>>

\* chat.py:58-71: ids, the first user message; without one HTTPException(400)
\* is raised inside the try block, whose except clause catches it. Otherwise
\* manage_context is awaited.
ReceiveChat(r, has_user, session_given, key) ==
    /\ requests[r].pc = "new"
    /\ LET req == [requests[r] EXCEPT !.endpoint = "chat", !.has_user = has_user,
                                      !.session_given = session_given,
                                      !.client_key = key]
       IN  requests' = [requests EXCEPT ![r] =
               IF has_user THEN CallStage(req, "context", <<>>)
               ELSE HandlerError(req, "HTTPException(400)")]
    /\ UNCHANGED <<kp_sources, rp_steps>>

\* chat.py:71-74: manage_context returns (learning.py:31-59 catches its own
\* exceptions); retrieve_knowledge is awaited.
ContextReturns(r) ==
    /\ requests[r].pc = "context"
    /\ requests' = [requests EXCEPT ![r] =
           CallStage(ReturnStage(requests[r], "context", <<"context", r>>),
                     "knowledge", <<>>)]
    /\ UNCHANGED <<kp_sources, rp_steps>>

\* generate.py:65-68 and chat.py:74-77: retrieve_knowledge returns (it catches
\* its own exceptions, knowledge.py:88-92) and analyze is called. In chat() the
\* call's argument api_key=api_key reads a local that is bound only at
\* chat.py:81: the read raises UnboundLocalError before analyze is entered.
KnowledgeReturns(r, v) ==
    /\ requests[r].pc = "knowledge"
    /\ LET val == <<"knowledge", r, v>>
           req == [ReturnStage(requests[r], "knowledge", val)
                       EXCEPT !.knowledge_context = val]
           ok  == req.endpoint = "generate" \/ req.api_key # Unbound
       IN  /\ requests' = [requests EXCEPT ![r] =
                  IF ok THEN CallStage(req, "reasoning", AnalyzeArgs(req))
                  ELSE HandlerError(req, "UnboundLocalError")]
           \* reasoning.py:51: analyze starts by emptying the step list.
           /\ rp_steps' = IF ok THEN <<>> ELSE rp_steps
    \* knowledge.py:77: the sources of the finished retrieval are kept.
    /\ kp_sources' = r

\* generate.py:68-76 and chat.py:77-91: analyze returns (its own fallback on
\* any exception, reasoning.py:94-106); chat() binds llm_config and api_key;
\* generate is awaited.
ReasoningReturns(r, v) ==
    /\ requests[r].pc = "reasoning"
    /\ LET val == <<"reasoning", r, v>>
           req == [ReturnStage(requests[r], "reasoning", val)
                       EXCEPT !.reasoning_result = val,
                              !.api_key = IF @ = Unbound /\ requests[r].endpoint = "chat"
                                          THEN requests[r].client_key ELSE @]
       IN  requests' = [requests EXCEPT ![r] =
               CallStage(req, "generation", GenerateArgs(req))]
    \* reasoning.py:56-70: the steps of a chain that ran are in the list.
    /\ rp_steps' = IF v = "analysis" THEN Append(rp_steps, r) ELSE rp_steps
    /\ UNCHANGED kp_sources

\* generate.py:71-83 and chat.py:84-99: generate returns its text;
\* format_response is awaited.
GenerationReturns(r) ==
    /\ requests[r].pc = "generation"
    /\ LET val == <<"content", r>>
           req == [ReturnStage(requests[r], "generation", val)
                       EXCEPT !.generated_content = val]
       IN  requests' = [requests EXCEPT ![r] =
               CallStage(req, "formatting", FormatArgs(req))]
    /\ UNCHANGED <<kp_sources, rp_steps>>

\* generation.py:112-115: generate re-raises; the handler's except clause
\* answers 500.
GenerationRaises(r) ==
    /\ requests[r].pc = "generation"
    /\ requests' = [requests EXCEPT ![r] = HandlerError(requests[r], "generation")]
    /\ UNCHANGED <<kp_sources, rp_steps>>

\* generate.py:79-94 and chat.py:94-123: format_response returns (the original
\* content on any exception, communication.py:80-83); the response is built
\* with the metadata read from the shared protocol instances.
FormattingReturns(r, v) ==
    /\ requests[r].pc = "formatting"
    /\ LET val  == <<v, r>>
           req  == ReturnStage(requests[r], "formatting", val)
           meta == [used_knowledge |-> kp_sources, reasoning_steps |-> rp_steps]
           resp == IF req.endpoint = "generate"
                   THEN [text |-> val, request_id |-> <<"request_id", r>>,
                         metadata |-> meta]
                   ELSE [message |-> [role |-> "assistant", content |-> val],
                         session_id |-> IF req.session_given
                                        THEN <<"session_id", "given">>
                                        ELSE <<"session_id", "fresh">>,
                         request_id |-> <<"request_id", r>>,
                         metadata |-> meta]
       IN  requests' = [requests EXCEPT ![r] =
               [req EXCEPT !.pc = "responded", !.status = 200, !.response = resp]]
    /\ UNCHANGED <<kp_sources, rp_steps>>

\* The protocol instances as built at import (knowledge.py:18, reasoning.py:16).
PipeInit ==
    /\ requests = [r \in Requests |-> NewRequest]
    /\ kp_sources = 0
    /\ rp_steps = <<>>

PipeIdle == PipeInit

(***************************************************************************)
(* KnowledgeAccessProtocol.retrieve_knowledge                              *)
(***************************************************************************)
\* A float, in hundredths.
Float(h) == <<"float", h>>
PyMax(a, b) == IF b[2] > a[2] THEN b ELSE a

\* A key the dict does not hold.
Absent == "<absent>"
AbsentScore == <<"<absent>">>

\* Optional[Dict] results: None stands as the empty dict, both are falsy and
\* the code tests only `if results:`.
NoResults == EmptyDict

SeqsUpTo(S, n) == UNION {[1..k -> S] : k \in 0..n}

\* What vector_db.search can give back: an exception, or up to MaxHits
\* results {"content", "score", "metadata": {"source"}?}.
VectorHits == [content : {"a", "b"}, score : {Float(60), Float(90)},
               source : {Absent, "doc"}]
VectorOutcomes ==
    {[kind |-> "exception", results |-> <<>>]} \cup
    {[kind |-> "results", results |-> rs] : rs \in SeqsUpTo(VectorHits, MaxHits)}

\* What search_service.search can give back: an exception, or up to
\* MaxExternalHits results {"content", "score"?, "source"}; the score may be None.
ExternalHits == [content : {"b", "c"}, score : {AbsentScore, None, Float(80)},
                 source : {"web"}]
ExternalOutcomes ==
    {[kind |-> "exception", results |-> <<>>]} \cup
    {[kind |-> "results", results |-> rs] : rs \in SeqsUpTo(ExternalHits, MaxExternalHits)}

KnowledgeOptions ==
    Both(Optional("always_search_external", {TRUE}),
         Optional("sufficient_confidence", {Float(0), Float(50)}))

\* knowledge.py:46-50
NewKnowledgeContext ==
    [relevant_info |-> <<>>, sources |-> <<>>, confidence |-> Float(0)]

RECURSIVE VectorConfidence(_)
VectorConfidence(results) ==
    IF results = <<>> THEN Float(0)
    ELSE PyMax(VectorConfidence(Tail(results)), Head(results).score)

\* knowledge.py:96-132: _perform_vector_search on the outcome of the search.
perform_vector_search(outcome) ==
    IF outcome.kind = "exception" \/ outcome.results = <<>> THEN NoResults
    ELSE LET results == outcome.results
             withSource == SelectSeq(results, LAMBDA x : x.source # Absent)
         IN  [relevant_info |-> [i \in 1..Len(results) |->
                  [content |-> results[i].content, score |-> results[i].score,
                   source |-> IF results[i].source = Absent THEN "vector_db"
                              ELSE results[i].source]],
              sources |-> [i \in 1..Len(withSource) |-> withSource[i].source],
              confidence |-> VectorConfidence(results)]

\* knowledge.py:153-185: _perform_external_search on the outcome of the search.
perform_external_search(outcome) ==
    IF outcome.kind = "exception" \/ outcome.results = <<>> THEN NoResults
    ELSE LET results == outcome.results
         IN  [relevant_info |-> [i \in 1..Len(results) |->
                  [content |-> results[i].content,
                   score |-> IF results[i].score = AbsentScore THEN Float(70)
                             ELSE results[i].score,
                   source |-> results[i].source]],
              sources |-> [i \in 1..Len(results) |-> results[i].source],
              confidence |-> Float(70)]

\* knowledge.py:54-57 and 64-67
Extend(knowledge_context, results) ==
    IF DictTruthy(results)
    THEN [relevant_info |-> knowledge_context.relevant_info \o results.relevant_info,
          sources |-> knowledge_context.sources \o results.sources,
          confidence |-> PyMax(knowledge_context.confidence, results.confidence)]
    ELSE knowledge_context

\* Mutant: a confidence equal to the threshold does not count as sufficient.
should_perform_external_search_Strict(knowledge_context, context) ==
    IF GetOr(context, "always_search_external", FALSE) THEN TRUE
    ELSE IF knowledge_context.confidence[2]
                > GetOr(context, "sufficient_confidence", Float(85))[2] THEN FALSE
    ELSE TRUE

\* Mutant: too few hits end the decision with no search.
should_perform_external_search_NoFallback(knowledge_context, context) ==
    IF GetOr(context, "always_search_external", FALSE) THEN TRUE
    ELSE IF knowledge_context.confidence[2]
                >= GetOr(context, "sufficient_confidence", Float(85))[2] THEN FALSE
    ELSE IF Len(knowledge_context.relevant_info)
                < GetOr(context, "min_relevant_info", PyInt(2))[2] THEN FALSE
    ELSE TRUE

\* knowledge.py:134-149
should_perform_external_search(knowledge_context, context) ==
    IF GetOr(context, "always_search_external", FALSE) THEN TRUE
    ELSE IF knowledge_context.confidence[2]
                >= GetOr(context, "sufficient_confidence", Float(85))[2] THEN FALSE
    ELSE IF Len(knowledge_context.relevant_info)
                < GetOr(context, "min_relevant_info", PyInt(2))[2] THEN TRUE
    ELSE TRUE

PosOf(seq, content) ==
    IF \E i \in 1..Len(seq) : seq[i].content = content
    THEN CHOOSE i \in 1..Len(seq) : seq[i].content = content
    ELSE 0

\* knowledge.py:190-194: the dict of the best entry per content, in insertion
\* order; comparing a None score raises TypeError.
RECURSIVE UniqueInfo(_, _)
UniqueInfo(relevant_info, unique) ==
    IF relevant_info = <<>> THEN [raised |-> FALSE, values |-> unique]
    ELSE LET info == Head(relevant_info)
             i    == PosOf(unique, info.content)
         IN  IF i = 0 THEN UniqueInfo(Tail(relevant_info), Append(unique, info))
             ELSE IF info.score = None \/ unique[i].score = None
                  THEN [raised |-> TRUE, values |-> <<>>]
             ELSE UniqueInfo(Tail(relevant_info),
                             IF info.score[2] > unique[i].score[2]
                             THEN [unique EXCEPT ![i] = info] ELSE unique)

\* sorted(..., key=score, reverse=True): stable, highest score first; a list
\* of fewer than two entries is returned without a comparison.
RECURSIVE SortedByScore(_)
SortedByScore(seq) ==
    IF Len(seq) <= 1 THEN seq
    ELSE LET i == CHOOSE i \in 1..Len(seq) :
                     /\ \A j \in 1..Len(seq) : seq[j].score[2] <= seq[i].score[2]
                     /\ \A j \in 1..(i - 1) : seq[j].score[2] < seq[i].score[2]
         IN  <<seq[i]>> \o SortedByScore(SubSeq(seq, 1, i - 1) \o SubSeq(seq, i + 1, Len(seq)))

\* Mutant: the entries are ranked without removing duplicates.
deduplicate_and_rank_NoDedup(relevant_info) ==
    LET unique == UniqueInfo(relevant_info, <<>>)
    IN  IF unique.raised THEN unique
        ELSE IF Len(relevant_info) >= 2
                /\ \E i \in 1..Len(relevant_info) : relevant_info[i].score = None
             THEN [raised |-> TRUE, values |-> <<>>]
        ELSE [raised |-> FALSE, values |-> SortedByScore(relevant_info)]

\* Mutant: the unique entries are returned in insertion order.
deduplicate_and_rank_Unsorted(relevant_info) ==
    LET unique == UniqueInfo(relevant_info, <<>>)
    IN  IF unique.raised THEN unique
        ELSE IF Len(unique.values) >= 2
                /\ \E i \in 1..Len(unique.values) : unique.values[i].score = None
             THEN [raised |-> TRUE, values |-> <<>>]
        ELSE [raised |-> FALSE, values |-> unique.values]

\* knowledge.py:187-199
deduplicate_and_rank(relevant_info) ==
    LET unique == UniqueInfo(relevant_info, <<>>)
    IN  IF unique.raised THEN unique
        ELSE IF Len(unique.values) >= 2
                /\ \E i \in 1..Len(unique.values) : unique.values[i].score = None
             THEN [raised |-> TRUE, values |-> <<>>]
        ELSE [raised |-> FALSE, values |-> SortedByScore(unique.values)]

\* The strings that occur as sources, and the orders their hashes can give.
SourceNames == {"doc", "web"}
HashOrders ==
    {o \in [1..Cardinality(SourceNames) -> SourceNames] :
        \A i, j \in DOMAIN o : i # j => o[i] # o[j]}

\* list(set(xs)): the distinct values, in the order the hashes give; the
\* order is fixed for the life of the process.
ListOfSet(xs) ==
    SelectSeq(hash_order, LAMBDA x : \E i \in 1..Len(xs) : xs[i] = x)

\* Mutant: the handler of retrieve_knowledge lets the exception through.
OnRetrievalError_Propagate(call) ==
    [call EXCEPT !.pc = "done", !.raised = TRUE]

\* knowledge.py:88-92: any exception ends the call with the empty context.
OnRetrievalError(call) ==
    [call EXCEPT !.pc = "done",
                 !.result = [relevant_info |-> <<>>, sources |-> <<>>,
                             confidence |-> Float(0)]]

\* No earlier call is being repeated.
NoCall == [kind |-> "none"]

IdleRetrieval ==
    [pc |-> "idle", context |-> EmptyDict, knowledge_context |-> EmptyDict,
     vector |-> [kind |-> "not called", results |-> <<>>],
     external |-> [kind |-> "not called", results |-> <<>>],
     log |-> <<>>, result |-> EmptyDict, raised |-> FALSE, first |-> NoCall]

\* Mutant: the call returns the sources the instance held before it.
Finish_StaleSources(call, knowledge_context) ==
    LET ranked == deduplicate_and_rank(knowledge_context.relevant_info)
        srcs   == ListOfSet(knowledge_context.sources)
    IN  IF ranked.raised
        THEN /\ retrieval' = OnRetrievalError(call)
             /\ UNCHANGED <<sources, hash_order>>
        ELSE /\ retrieval' = [call EXCEPT !.pc = "done",
                     !.knowledge_context = knowledge_context,
                     !.result = [relevant_info |-> ranked.values, sources |-> sources,
                                 confidence |-> knowledge_context.confidence]]
             /\ sources' = srcs
             /\ UNCHANGED hash_order

\* knowledge.py:72-86: rank, store the sources, return.
Finish(call, knowledge_context) ==
    LET ranked == deduplicate_and_rank(knowledge_context.relevant_info)
        srcs   == ListOfSet(knowledge_context.sources)
    IN  IF ranked.raised
        THEN /\ retrieval' = OnRetrievalError(call)
             /\ UNCHANGED <<sources, hash_order>>
        ELSE /\ retrieval' = [call EXCEPT !.pc = "done",
                     !.knowledge_context = knowledge_context,
                     !.result = [relevant_info |-> ranked.values, sources |-> srcs,
                                 confidence |-> knowledge_context.confidence]]
             /\ sources' = srcs
             /\ UNCHANGED hash_order

\* knowledge.py:43-53: the context is initialised and vector_db.search awaited.
RetrieveStart(context) ==
    /\ retrieval.pc = "idle"
    /\ retrieval' = [retrieval EXCEPT !.pc = "vector", !.context = context,
                                      !.knowledge_context = NewKnowledgeContext,
                                      !.log = <<"vector">>]
    /\ UNCHANGED <<sources, hash_order>>

\* knowledge.py:53-63: the vector search is over; either the external search
\* is awaited or the call finishes.
VectorSearchReturns(outcome) ==
    /\ retrieval.pc = "vector"
    /\ LET call == [retrieval EXCEPT !.vector = outcome]
           knowledge_context ==
               Extend(retrieval.knowledge_context, perform_vector_search(outcome))
       IN  IF should_perform_external_search(knowledge_context, retrieval.context)
           THEN /\ retrieval' = [call EXCEPT !.pc = "external",
                                             !.knowledge_context = knowledge_context,
                                             !.log = Append(@, "external")]
                /\ UNCHANGED <<sources, hash_order>>
           ELSE Finish(call, knowledge_context)

\* knowledge.py:63-86: the external search is over; the call finishes.
ExternalSearchReturns(outcome) ==
    /\ retrieval.pc = "external"
    /\ Finish([retrieval EXCEPT !.external = outcome],
              Extend(retrieval.knowledge_context, perform_external_search(outcome)))

\* The next call on the same instance.
RetrieveAgain ==
    /\ retrieval.pc = "done"
    /\ retrieval' = IdleRetrieval
    /\ UNCHANGED <<sources, hash_order>>

\* The arguments _should_perform_external_search is evaluated on: a context
\* after the vector search, and the request's options.
DecisionKnowledge ==
    {[relevant_info |-> <<>>, sources |-> <<>>, confidence |-> Float(0)]} \cup
    {[relevant_info |-> [i \in 1..n |->
                            [content |-> "a", score |-> c, source |-> "vector_db"]],
      sources |-> <<>>, confidence |-> c] :
        n \in 1..MaxHits, c \in {Float(0), Float(50), Float(84), Float(85),
                                  Float(86), Float(90)}}
DecisionOptions ==
    Both(Both(Optional("always_search_external", {FALSE, TRUE}),
              Optional("sufficient_confidence", {Float(0), Float(50), Float(90)})),
         Optional("min_relevant_info", {PyInt(1), PyInt(3)}))

\* knowledge.py:60: the decision is taken.
Decide ==
    /\ decision.pc = "input"
    /\ decision' = [decision EXCEPT !.pc = "decided",
           !.result = should_perform_external_search(decision.knowledge_context,
                                                     decision.context)]

DecideInit ==
    \E kc \in DecisionKnowledge, context \in DecisionOptions :
        decision = [pc |-> "input", knowledge_context |-> kc,
                    context |-> context, result |-> FALSE]

DecideIdle ==
    decision = [pc |-> "input", knowledge_context |-> NewKnowledgeContext,
                context |-> EmptyDict, result |-> FALSE]

\* The same call once more: the same query and context, against backends
\* that will give back what they gave the first time.
RetrieveRepeat ==
    /\ retrieval.pc = "done"
    /\ retrieval.first = NoCall
    /\ retrieval' = [IdleRetrieval EXCEPT
           !.pc = "vector", !.context = retrieval.context,
           !.knowledge_context = NewKnowledgeContext, !.log = <<"vector">>,
           !.first = [kind |-> "call", vector |-> retrieval.vector,
                      external |-> retrieval.external,
                      result |-> retrieval.result]]
    /\ UNCHANGED <<sources, hash_order>>

\* knowledge.py:18
KnowInit ==
    /\ retrieval = IdleRetrieval
    /\ sources = <<>>
    /\ hash_order \in HashOrders

KnowIdle ==
    /\ retrieval = IdleRetrieval
    /\ sources = <<>>
    /\ hash_order = <<"doc", "web">>

(***************************************************************************)
(* AnalyticalReasoningProtocol.analyze                                     *)
(***************************************************************************)
\* The steps of the chain, by number (reasoning.py:58-70).
StepNames == <<"request_analysis", "knowledge_evaluation",
               "key_points_extraction", "response_planning">>

\* What one LLM call of a step can end in: the call raises after its retries,
\* the text is not JSON, the text is a JSON object with the fields the prompt
\* asks for, an empty JSON object, or JSON that is not an object.
LLMOutcomes == {"fail", "invalid", "object", "empty_object", "array"}

\* json.loads of a text that holds a JSON array: a list, which has no .get.
JsonArray == [python_type |-> "list"]
IsDict(x) == "python_type" \notin DOMAIN x

\* The object an LLM gives back when it answers a step as asked.
LLMObject(n) ==
    CASE n = 1 -> [intent |-> <<"information">>, domain |-> <<"technical">>,
                   complexity |-> <<"high">>, keywords |-> <<"list", "k">>]
      [] n = 2 -> [sufficiency |-> <<"sufficient">>, gaps |-> EmptyList,
                   reliability |-> <<"high">>]
      [] n = 3 -> [points |-> <<"list", "p1", "p2">>,
                   importance |-> <<"list", "5", "3">>,
                   relevance |-> <<"list", "4", "4">>]
      [] n = 4 -> [format |-> <<"markdown">>, tone |-> <<"formal">>,
                   structure |-> <<"sequential">>, sections |-> <<"list", "s">>]

\* reasoning.py:137-142, 186-190, 231-235, 277-282: what a step returns when
\* its LLM call or the parsing of the answer raised.
StepDefault(n) ==
    CASE n = 1 -> [intent |-> <<"unknown">>, domain |-> <<"general">>,
                   complexity |-> <<"medium">>, keywords |-> EmptyList]
      [] n = 2 -> [sufficiency |-> <<"unknown">>, gaps |-> EmptyList,
                   reliability |-> <<"medium">>]
      [] n = 3 -> [points |-> EmptyList, importance |-> EmptyList,
                   relevance |-> EmptyList]
      [] n = 4 -> [format |-> <<"text">>, tone |-> <<"neutral">>,
                   structure |-> <<"default">>, sections |-> EmptyList]

\* reasoning.py:148-152: step 2 on a context without relevant_info.
NoKnowledgeEvaluation ==
    [sufficiency |-> <<"insufficient">>, gaps |-> <<"list", "no relevant info">>,
     reliability |-> <<"low">>]

\* Mutant: a step lets the failure of its LLM call or of the parsing through.
StepResult_Raises(n, outcome) ==
    CASE outcome \in {"fail", "invalid"} -> [python_type |-> "exception"]
      [] outcome = "object"              -> LLMObject(n)
      [] outcome = "empty_object"        -> EmptyDict
      [] outcome = "array"               -> JsonArray

\* reasoning.py:122-142 and the like in the other steps: the try block around
\* generate_text and json.loads.
StepResult(n, outcome) ==
    CASE outcome \in {"fail", "invalid"} -> StepDefault(n)
      [] outcome = "object"              -> LLMObject(n)
      [] outcome = "empty_object"        -> EmptyDict
      [] outcome = "array"               -> JsonArray

\* reasoning.py:97-106
FallbackResult ==
    [intent |-> <<"unknown">>, domain |-> <<"general">>,
     complexity |-> <<"medium">>, knowledge_sufficiency |-> <<"unknown">>,
     key_points |-> EmptyList, suggested_format |-> <<"text">>,
     tone |-> <<"neutral">>, structure |-> <<"default">>]

\* reasoning.py:73-82
ReasoningResult(results) ==
    [intent |-> Get(results[1], "intent"),
     domain |-> Get(results[1], "domain"),
     complexity |-> Get(results[1], "complexity"),
     knowledge_sufficiency |-> Get(results[2], "sufficiency"),
     key_points |-> GetOr(results[3], "points", EmptyList),
     suggested_format |-> Get(results[4], "format"),
     tone |-> Get(results[4], "tone"),
     structure |-> Get(results[4], "structure")]

\* The knowledge contexts analyze is called with: no relevant_info, entries
\* that are strings, entries that are the records retrieve_knowledge returns.
TextEntry == [text |-> "Info 1"]
RecordEntry == [content |-> "a", score |-> Float(90), source |-> "doc"]
IsText(entry) == DOMAIN entry = {"text"}
AnalyzedKnowledge ==
    {EmptyDict,
     [relevant_info |-> <<>>, sources |-> <<>>, confidence |-> Float(0)],
     [relevant_info |-> <<TextEntry>>],
     [relevant_info |-> <<RecordEntry>>, sources |-> <<"doc">>,
      confidence |-> Float(90)]}

RelevantInfo(knowledge_context) ==
    IF "relevant_info" \in DOMAIN knowledge_context
    THEN knowledge_context.relevant_info ELSE <<>>

\* reasoning.py:155 and 195: "\n\n".join(...) raises TypeError on an entry
\* that is not a string.
JoinRaises(knowledge_context) ==
    \E i \in 1..Len(RelevantInfo(knowledge_context)) :
        ~IsText(RelevantInfo(knowledge_context)[i])

IdleAnalysis ==
    [pc |-> "idle", knowledge_context |-> EmptyDict, results |-> <<>>,
     llm_calls |-> <<>>, outcomes |-> <<>>, result |-> EmptyDict,
     fell_back |-> FALSE, raised |-> FALSE, steps |-> <<>>]

\* Mutant: the handler of analyze lets the exception through.
AnalyzeError_Propagate(call, steps) ==
    [call EXCEPT !.pc = "done", !.raised = TRUE, !.steps = steps]

\* reasoning.py:93-106: any exception that escapes a step ends the call with
\* the fallback result.
AnalyzeError(call, steps) ==
    [call EXCEPT !.pc = "done", !.result = FallbackResult, !.fell_back = TRUE,
                 !.steps = steps]

\* The entry appended to self.reasoning_steps after step n.
StepEntry(n, result) == [step |-> StepNames[n], result |-> result]

\* Mutant: step 4 is planned from the default request analysis.
StepArgs_NoAnalysis(n, results) ==
    CASE n = 1 -> <<>>
      [] n = 2 -> <<>>
      [] n = 3 -> <<results[1]>>
      [] n = 4 -> <<results[3], StepDefault(1)>>

\* reasoning.py:57, 61, 65, 69: the earlier results a step is given.
StepArgs(n, results) ==
    CASE n = 1 -> <<>>
      [] n = 2 -> <<>>
      [] n = 3 -> <<results[1]>>
      [] n = 4 -> <<results[3], results[1]>>

\* The code of step n before its try block raises: the join of entries that
\* are not strings (steps 2 and 3), .get on a result that is no dict (the
\* prompts of steps 3 and 4).
StepRaisesBeforeCall(n, knowledge_context, results) ==
    CASE n = 1 -> FALSE
      [] n = 2 -> JoinRaises(knowledge_context)
      [] n = 3 -> JoinRaises(knowledge_context) \/ ~IsDict(results[1])
      [] n = 4 -> ~IsDict(results[3]) \/ ~IsDict(results[1])

\* reasoning.py:147: step 2 returns at once when relevant_info is empty.
SkipsLLM(n, knowledge_context) ==
    n = 2 /\ RelevantInfo(knowledge_context) = <<>>

\* The chain from the start of step n up to its LLM call, or through step 2
\* when that returns without one, or to the end of analyze after step 4
\* (reasoning.py:57-91). Gives the coroutine and self.reasoning_steps.
RECURSIVE RunFrom(_, _, _)
RunFrom(n, call, steps) ==
    IF n = 5
    THEN IF \E i \in 1..4 : ~IsDict(call.results[i])
         THEN [call |-> AnalyzeError(call, steps), steps |-> steps]
         ELSE [call |-> [call EXCEPT !.pc = "done",
                                     !.result = ReasoningResult(call.results),
                                     !.steps = steps],
               steps |-> steps]
    ELSE IF SkipsLLM(n, call.knowledge_context)
    THEN RunFrom(n + 1,
                 [call EXCEPT !.results = Append(@, NoKnowledgeEvaluation)],
                 Append(steps, StepEntry(n, NoKnowledgeEvaluation)))
    ELSE IF StepRaisesBeforeCall(n, call.knowledge_context, call.results)
    THEN [call |-> AnalyzeError(call, steps), steps |-> steps]
    ELSE [call |-> [call EXCEPT !.pc = "llm",
                       !.llm_calls = Append(@, [step |-> n,
                                                given |-> StepArgs(n, call.results)])],
          steps |-> steps]

\* reasoning.py:42-57: the step list is emptied and step 1 asks the LLM.
AnalyzeStart(knowledge_context) ==
    /\ analysis.pc = "idle"
    /\ LET next == RunFrom(1, [analysis EXCEPT !.knowledge_context = knowledge_context],
                           <<>>)
       IN  /\ analysis' = next.call
           /\ reasoning_steps' = next.steps

\* The LLM call of the current step is over: the step returns its result, the
\* result is appended to the step list and the chain goes on.
LLMReturns(outcome) ==
    /\ analysis.pc = "llm"
    /\ LET n      == analysis.llm_calls[Len(analysis.llm_calls)].step
           result == StepResult(n, outcome)
           next   == RunFrom(n + 1,
                             [analysis EXCEPT !.results = Append(@, result),
                                              !.outcomes = Append(@, outcome)],
                             Append(reasoning_steps, StepEntry(n, result)))
       IN  /\ analysis' = next.call
           /\ reasoning_steps' = next.steps

\* The next analyze call on the same instance.
AnalyzeAgain ==
    /\ analysis.pc = "done"
    /\ analysis' = IdleAnalysis
    /\ UNCHANGED reasoning_steps

\* reasoning.py:13-16
ReasonInit ==
    /\ analysis = IdleAnalysis
    /\ reasoning_steps = <<>>

ReasonIdle == ReasonInit

(***************************************************************************)
(* CommunicationProtocol.format_response                                   *)
(***************************************************************************)
\* A text is the sequence of its characters.
MaxContentLen == 3
Chars == {"a", ".", " ", "\n"}
Texts == UNION {[1..n -> Chars] : n \in 0..MaxContentLen}

\* s[i..] begins with sep.
StartsAt(s, i, sep) ==
    /\ i + Len(sep) - 1 <= Len(s)
    /\ SubSeq(s, i, i + Len(sep) - 1) = sep

\* sep in s
Contains(s, sep) == \E i \in 1..Len(s) : StartsAt(s, i, sep)

\* s.split(sep)
RECURSIVE Split(_, _)
Split(s, sep) ==
    IF ~Contains(s, sep) THEN <<s>>
    ELSE LET i == CHOOSE k \in 1..Len(s) :
                      StartsAt(s, k, sep) /\ \A j \in 1..(k - 1) : ~StartsAt(s, j, sep)
         IN  <<SubSeq(s, 1, i - 1)>> \o Split(SubSeq(s, i + Len(sep), Len(s)), sep)

\* sep.join(parts)
RECURSIVE Join(_, _)
Join(parts, sep) ==
    IF parts = <<>> THEN <<>>
    ELSE IF Len(parts) = 1 THEN parts[1]
    ELSE parts[1] \o sep \o Join(Tail(parts), sep)

\* communication.py:93-103: three sentences to a paragraph, each paragraph
\* closed with a full stop.
RECURSIVE Paragraphs(_)
Paragraphs(sentences) ==
    IF sentences = <<>> THEN <<>>
    ELSE IF Len(sentences) <= 3 THEN <<Join(sentences, <<".", " ">>) \o <<".">>>>
    ELSE <<Join(SubSeq(sentences, 1, 3), <<".", " ">>) \o <<".">>>>
         \o Paragraphs(SubSeq(sentences, 4, Len(sentences)))

\* The context format_response is called with: "<absent>" stands for a key the
\* context does not hold. sources is a list of strings or a value that cannot
\* be iterated (a number).
SampleSources == <<"s1", "s2">>
FormatContexts ==
    [format : {"<absent>", "json", "markdown", "code", "table", "text", "unknown"},
     tone : {"<absent>", "conversational"},
     add_citations : BOOLEAN,
     sources : {"<absent>", "list", "number"}]

\* What the LLM backend would do with a formatting prompt.
BackendOutcomes == {"returns", "unavailable"}

\* communication.py:116, 133, 162, 187, 205: the helpers read llm_service, a
\* local of format_response (line 52) that is no name of theirs nor of the
\* module: the read raises NameError inside the helper's try block, before any
\* call of the backend, whatever the backend would do.
HelperCallRaises(backend) == TRUE

\* communication.py:85-124
format_as_text(content, context, backend) ==
    IF Contains(content, <<"\n", "\n">>) THEN content
    ELSE Join(Paragraphs(Split(content, <<".", " ">>)), <<"\n", "\n">>)

\* Each line followed by an empty one (communication.py:148-151).
RECURSIVE BlankAfterEach(_)
BlankAfterEach(lines) ==
    IF lines = <<>> THEN <<>>
    ELSE <<lines[1], <<>>>> \o BlankAfterEach(Tail(lines))

\* Mutant: the fallback hands the content back as it came.
MarkdownFallback_Raw(content) == content

\* communication.py:142-153: the fallback of the markdown helper.
MarkdownFallback(content) ==
    LET lines   == Split(content, <<"\n">>)
        headed  == [lines EXCEPT ![1] = <<"#", " ">> \o lines[1]]
    IN  Join(BlankAfterEach(headed), <<"\n">>)

\* communication.py:126-153
format_as_markdown(content, context, backend) ==
    IF HelperCallRaises(backend) THEN MarkdownFallback(content)
    ELSE <<"<llm markdown>">>

\* json.dumps of a string: the line feed is escaped.
JsonString(content) ==
    <<"\"">> \o [i \in 1..Len(content) |->
                    IF content[i] = "\n" THEN "\\n" ELSE content[i]] \o <<"\"">>

\* communication.py:155-176
format_as_json(content, context, backend) ==
    IF HelperCallRaises(backend)
    THEN <<"{", "\"content\"", ": ">> \o JsonString(content) \o <<"}">>
    ELSE <<"<llm json>">>

\* communication.py:178-196 (code_language is left at its default).
format_as_code(content, context, backend) ==
    IF HelperCallRaises(backend)
    THEN <<"<fence>", "python", "\n">> \o content \o <<"\n", "<fence>">>
    ELSE <<"<fence>", "python", "\n", "<llm code>", "\n", "<fence>">>

\* communication.py:198-214
format_as_table(content, context, backend) ==
    IF HelperCallRaises(backend) THEN content ELSE <<"<llm table>">>

\* communication.py:55-64
FormatByKind(content, context, backend) ==
    CASE context.format = "json"     -> format_as_json(content, context, backend)
      [] context.format = "markdown" -> format_as_markdown(content, context, backend)
      [] context.format = "code"     -> format_as_code(content, context, backend)
      [] context.format = "table"    -> format_as_table(content, context, backend)
      [] OTHER                       -> format_as_text(content, context, backend)

\* communication.py:67: both the flag and a truthy sources value.
WantsCitations(context) == context.add_citations /\ context.sources # "<absent>"

\* communication.py:222: enumerate(sources) raises TypeError on a number.
CitationsRaise(context) == context.sources = "number"

\* communication.py:222
SourcesText == <<"1", ".", " ", "s1", "\n", "2", ".", " ", "s2">>

\* communication.py:216-239 for a list of sources. The json text built by the
\* helper parses, so the sources become a field of it.
add_citations(formatted, content, context) ==
    CASE context.format = "markdown" ->
             formatted \o <<"\n", "\n", "---", "\n", "\n", "**sources:**", "\n">>
                       \o SourcesText
      [] context.format = "json" ->
             <<"{", "\"content\"", ": ">> \o JsonString(content)
                 \o <<", ", "\"sources\"", ": ", "[\"s1\", \"s2\"]", "}">>
      [] OTHER ->
             formatted \o <<"\n", "\n", "sources:", "\n">> \o SourcesText

IdleFormatting ==
    [pc |-> "idle", content |-> <<>>, context |-> [format |-> "<absent>",
     tone |-> "<absent>", add_citations |-> FALSE, sources |-> "<absent>"],
     backend |-> "returns", result |-> <<>>, failed |-> FALSE, raised |-> FALSE]

\* Mutant: the handler of format_response re-raises.
OnFormatError_Propagate(call) ==
    [call EXCEPT !.pc = "done", !.raised = TRUE, !.failed = TRUE]

\* communication.py:79-83: on any exception the original content is returned.
OnFormatError(call) ==
    [call EXCEPT !.pc = "done", !.result = call.content, !.failed = TRUE]

\* communication.py:41-83: one call of format_response. No helper reaches its
\* await on the backend, so the call runs to its end without suspending.
FormatResponse(content, context, backend) ==
    /\ formatting.pc = "idle"
    /\ LET call      == [formatting EXCEPT !.content = content,
                                           !.context = context,
                                           !.backend = backend]
           formatted == FormatByKind(content, context, backend)
       IN  formatting' =
               IF WantsCitations(context) /\ CitationsRaise(context)
               THEN OnFormatError(call)
               ELSE [call EXCEPT !.pc = "done",
                        !.result = IF WantsCitations(context)
                                   THEN add_citations(formatted, content, context)
                                   ELSE formatted]

\* The next call.
FormatAgain ==
    /\ formatting.pc = "done"
    /\ formatting' = IdleFormatting

FormatInit == formatting = IdleFormatting
FormatIdle == FormatInit

(***************************************************************************)
(* AdaptiveLearningProtocol: feedback (protocols/learning.py), the         *)
(* DatabaseService it stores through (services/database.py), and the       *)
(* second analyzer of protocols/adaptive_learning.py.                      *)
(***************************************************************************)
MaxSubmissions == 2
Submissions == 1..MaxSubmissions
\* The ratings a caller may hand over; the scale of the application is 1..5.
SubmittedRatings == 0..6
RatingScale == 1..5
\* What insert_data does with a row: it stores it; it catches the database's
\* error, rolls back and returns -1; or get_session itself fails and the
\* handler's session.rollback() raises.
InsertOutcomes == {"inserted", "rejected", "raises"}
\* The methods DatabaseService defines.
DatabaseServiceMethods ==
    {"get_session", "insert_data", "find_data", "update_data", "find_one",
     "upsert", "delete_data"}
\* Calling a method the service does not define raises AttributeError.
CallRaises(method) == method \notin DatabaseServiceMethods

NoMetrics == EmptyDict
\* The record _update_learning_metrics starts from when none is stored.  The
\* average is kept as the exact quotient total / count.
InitialMetrics ==
    [total_feedback_count |-> 0,
     average_rating |-> [total |-> 0, count |-> 1],
     sentiment_distribution |-> [positive |-> 0, neutral |-> 0, negative |-> 0]]

\* LearningProtocol._analyze_feedback: the sentiment of a rating.
Sentiment_NeutralFromTwo(rating) ==
    IF rating >= 4 THEN "positive" ELSE IF rating < 2 THEN "negative" ELSE "neutral"
Sentiment(rating) ==
    IF rating >= 4 THEN "positive" ELSE IF rating <= 2 THEN "negative" ELSE "neutral"
\* The feedback types with tags of their own, and the values of feedback_type
\* a caller may send ("<absent>": the key is missing, the default is "").
TaggedTypes == {"accuracy", "relevance", "clarity", "completeness"}
FeedbackTypes == TaggedTypes \cup {"general", "<absent>"}
\* The tags of learning.py:233-252, in English.
ImprovementTag(feedback_type) ==
    CASE feedback_type = "accuracy"     -> "accuracy improvement needed"
      [] feedback_type = "relevance"    -> "relevance improvement needed"
      [] feedback_type = "clarity"      -> "clarity improvement needed"
      [] feedback_type = "completeness" -> "completeness improvement needed"
StrengthTag(feedback_type) ==
    CASE feedback_type = "accuracy"     -> "high accuracy"
      [] feedback_type = "relevance"    -> "high relevance"
      [] feedback_type = "clarity"      -> "high clarity"
      [] feedback_type = "completeness" -> "high completeness"
\* rating <= 3 in each branch of learning.py:233-252.
IsLowRating_BelowThree(rating) == rating < 3
IsLowRating(rating) == rating <= 3
\* The comments of a feedback: none, one without keyword, one with a negative
\* keyword, one with a positive keyword, and "inaccurate", whose negative
\* keyword holds the positive keyword "accurate" as a substring (as the
\* Korean keywords of learning.py:258 and 265 do).
Comments == {"<absent>", "plain", "wrong", "useful", "inaccurate"}
HasNegativeKeyword(comment) == comment \in {"wrong", "inaccurate"}
HasPositiveKeyword(comment) == comment \in {"useful", "inaccurate"}
analyze_feedback(feedback_data) ==
    LET rating == feedback_data.rating
        feedback_type == feedback_data.feedback_type
        comment == feedback_data.comment
        typed == feedback_type \in TaggedTypes
        areas1 == IF typed /\ IsLowRating(rating)
                  THEN <<ImprovementTag(feedback_type)>> ELSE <<>>
        strengths1 == IF typed /\ ~IsLowRating(rating)
                      THEN <<StrengthTag(feedback_type)>> ELSE <<>>
    IN [sentiment |-> Sentiment(rating),
        improvement_areas |->
            IF HasNegativeKeyword(comment)
            THEN Append(areas1, "improvement needed") ELSE areas1,
        strengths |->
            IF HasPositiveKeyword(comment)
            THEN Append(strengths1, "satisfied overall") ELSE strengths1]

\* adaptive_learning._validate_feedback and _analyze_rating.
validate_rating(rating) ==
    IF rating < 1 THEN 1 ELSE IF rating > 5 THEN 5 ELSE rating
analyze_rating(rating) ==
    IF rating >= 4 THEN "positive" ELSE IF rating >= 3 THEN "neutral" ELSE "negative"

\* average_rating * (total_feedback_count - 1) + rating, over the new count.
NewAverage(average, count, rating) ==
    [total |-> average.total * (count - 1) + rating * average.count,
     count |-> average.count * count]
\* The metrics _update_learning_metrics computes from the record it read.
UpdatedMetrics(read, rating, analysis_result) ==
    LET metrics == IF read = NoMetrics THEN InitialMetrics ELSE read
        count   == metrics.total_feedback_count + 1
        dist    == metrics.sentiment_distribution
        s       == analysis_result.sentiment
    IN [total_feedback_count |-> count,
        average_rating |-> NewAverage(metrics.average_rating, count, rating),
        sentiment_distribution |-> [dist EXCEPT ![s] = @ + 1]]
\* The stored record after _update_learning_metrics: the write goes through
\* db_service.update_one, and the handler of the method logs what it raises.
MetricsAfter(stored, computed) ==
    IF CallRaises("update_one") THEN stored ELSE computed

\* What process_feedback returns once the feedback is stored and analysed:
\* _update_learning_metrics has caught its own error.
OnMetricsError_Propagate(feedback_data, analysis_result, metrics_failed) ==
    IF metrics_failed
    THEN [status |-> "error"]
    ELSE [status |-> "success", feedback_id |-> feedback_data.feedback_id,
          analysis |-> analysis_result]
OnMetricsError(feedback_data, analysis_result, metrics_failed) ==
    [status |-> "success", feedback_id |-> feedback_data.feedback_id,
     analysis |-> analysis_result]

IdleSubmission ==
    [pc |-> "idle", feedback_data |-> EmptyDict, insert |-> "none",
     analysis |-> EmptyDict, read |-> NoMetrics, computed |-> NoMetrics,
     metrics_failed |-> FALSE, result |-> EmptyDict]

\* process_feedback(feedback_data): store, analyse, update the metrics.  None
\* of the coroutines it awaits suspends, so the call runs in one step.
ProcessFeedback(s, rating, feedback_type, comment, outcome) ==
    LET feedback_data == [feedback_id |-> s, rating |-> rating,
                          feedback_type |-> feedback_type, comment |-> comment]
        analysis_result == analyze_feedback(feedback_data)
        computed == UpdatedMetrics(metrics_record, rating, analysis_result)
        failed == CallRaises("update_one")
    IN /\ submissions[s].pc = "idle"
       /\ feedback_table' =
              IF outcome = "inserted" THEN feedback_table \cup {feedback_data}
              ELSE feedback_table
       /\ IF outcome = "raises"
          THEN /\ submissions' = [submissions EXCEPT ![s] =
                     [IdleSubmission EXCEPT !.pc = "done",
                         !.feedback_data = feedback_data, !.insert = outcome,
                         !.result = [status |-> "error"]]]
               /\ UNCHANGED metrics_record
          ELSE /\ metrics_record' = MetricsAfter(metrics_record, computed)
               /\ submissions' = [submissions EXCEPT ![s] =
                     [pc |-> "done", feedback_data |-> feedback_data,
                      insert |-> outcome, analysis |-> analysis_result,
                      read |-> metrics_record, computed |-> computed,
                      metrics_failed |-> failed,
                      result |-> OnMetricsError(feedback_data, analysis_result, failed)]]
       /\ UNCHANGED adaptive_feedback

IdleAdaptive == [pc |-> "idle", rating |-> 0, validated |-> 0, sentiment |-> "none"]
\* adaptive_learning.process_feedback of a rating_only feedback.
AdaptiveProcessFeedback(rating) ==
    /\ adaptive_feedback' =
           [pc |-> "done", rating |-> rating, validated |-> validate_rating(rating),
            sentiment |-> analyze_rating(validate_rating(rating))]
    /\ UNCHANGED <<feedback_table, metrics_record, submissions>>

LearnInit ==
    /\ feedback_table = {}
    /\ metrics_record = NoMetrics
    /\ submissions = [s \in Submissions |-> IdleSubmission]
    /\ adaptive_feedback = IdleAdaptive
LearnIdle ==
    /\ feedback_table = {}
    /\ metrics_record = NoMetrics
    /\ submissions = <<>>
    /\ adaptive_feedback = IdleAdaptive

(***************************************************************************)
(* AdaptiveLearningProtocol.manage_context (protocols/learning.py:21-59)   *)
(* over the conversation_context table.                                    *)
(***************************************************************************)
MaxMessages == 2
SessionIds == {"s1", "s2"}
MessageIds == {"m1", "m2"}
\* The message lists of a request.
RECURSIVE MessageLists(_)
MessageLists(n) ==
    IF n = 0 THEN {<<>>}
    ELSE MessageLists(n - 1) \cup
         {Append(l, m) : l \in {k \in MessageLists(n - 1) : Len(k) = n - 1}, m \in MessageIds}
NoContext == <<"<no row>">>
IsPrefixOf(a, b) == Len(a) <= Len(b) /\ \A i \in 1..Len(a) : a[i] = b[i]

\* The messages of the context after line 45.
ContextMessages(context, messages) == messages

IdleManage ==
    [pc |-> "idle", session_id |-> "none", messages |-> <<>>, existed |-> FALSE,
     before |-> <<>>, after |-> <<>>, result |-> EmptyDict]

\* manage_context(messages, session_id); upsert writes the row or reports
\* False, which manage_context does not read.
ManageContext(session_id, messages, written) ==
    LET found   == context_table[session_id]
        context == IF found = NoContext
                   THEN [session_id |-> session_id, messages |-> <<>>]
                   ELSE [session_id |-> session_id, messages |-> found]
        updated == [context EXCEPT !.messages = ContextMessages(context, messages)]
        stored  == IF written THEN updated.messages ELSE found
    IN /\ context_table' = [context_table EXCEPT ![session_id] = stored]
       /\ last_manage' =
              [pc |-> "done", session_id |-> session_id, messages |-> messages,
               existed |-> found # NoContext,
               before |-> IF found = NoContext THEN <<>> ELSE found,
               after |-> IF stored = NoContext THEN <<>> ELSE stored,
               result |-> updated]

ContextInit ==
    /\ context_table = [s \in SessionIds |-> NoContext]
    /\ last_manage = IdleManage
ContextIdle ==
    /\ context_table = <<>>
    /\ last_manage = IdleManage

(***************************************************************************)
(* LLMService._extract_generated_text (services/llm.py:126-150).           *)
(***************************************************************************)
\* Model names, and the substring tests of lines 129 and 136 on model.lower().
ModelNames == {"gpt-4", "OpenAI/o1", "claude-3", "Anthropic/c2", "llama-3"}
IsOpenAIModel(model) == model \in {"gpt-4", "OpenAI/o1"}
IsAnthropicModel(model) == model \in {"claude-3", "Anthropic/c2"}
\* A backend response: what its choices field holds ("<absent>": no such
\* key; "empty": []; else the keys of choices[0]) and which of the top-level
\* fields it has.  Every field holds its own path as its text.
ChoiceShapes == {"<absent>", "empty", "message.content", "text", "both", "neither"}
Responses ==
    [choices : ChoiceShapes, completion : BOOLEAN, text : BOOLEAN,
     generated_text : BOOLEAN, output : BOOLEAN]
HasMessageContent(result) == result.choices \in {"message.content", "both"}
HasChoiceText(result) == result.choices \in {"text", "both"}
Serialized == "json.dumps(result)"

\* Lines 142-150: the fields probed for every model.
GenericText(result) ==
    IF result.text THEN "text"
    ELSE IF result.generated_text THEN "generated_text"
    ELSE IF result.output THEN "output"
    ELSE Serialized
\* Lines 129-138: the fields probed for the model's family.
FamilyText(result, model) ==
    IF IsOpenAIModel(model)
    THEN IF HasMessageContent(result) THEN "choices[0].message.content"
         ELSE IF HasChoiceText(result) THEN "choices[0].text"
         ELSE "<none>"
    ELSE IF IsAnthropicModel(model) /\ result.completion THEN "completion"
    ELSE "<none>"
extract_generated_text(result, model) ==
    IF FamilyText(result, model) # "<none>" THEN FamilyText(result, model)
    ELSE GenericText(result)

IdleExtraction ==
    [pc |-> "idle", model |-> "none",
     result |-> [choices |-> "<absent>", completion |-> FALSE, text |-> FALSE,
                 generated_text |-> FALSE, output |-> FALSE],
     returned |-> "none"]
ExtractGeneratedText(result, model) ==
    /\ extraction.pc = "idle"
    /\ extraction' = [pc |-> "done", model |-> model, result |-> result,
                      returned |-> extract_generated_text(result, model)]
ExtractInit == extraction = IdleExtraction
ExtractIdle == ExtractInit

(***************************************************************************)
(* API keys (api/auth.py), the get_api_key dependency (core/auth.py) and   *)
(* the endpoints that do or do not depend on it (api/feedback.py,          *)
(* api/generate.py).                                                       *)
(***************************************************************************)
MaxKeys == 2
MaxTime == 3
\* expires_in_days as create_api_key may be given it.
ExpiryDays == {0, 1, 2}
\* The token of the key with id n (secrets.token_urlsafe: one per key).
TokenOf(n) == <<"mcp", n>>
NoKey == EmptyDict
\* What a request carries in X-API-Key: nothing, an empty value, a token that
\* was never issued, or an issued token.
PresentedKeys == {None, EmptyStr, <<"mcp", 0>>} \cup {TokenOf(n) : n \in 1..MaxKeys}

\* api/auth.py:48-73 (user_id, description and created_at, which nothing
\* reads back, are left out).
create_api_key(keys, time, expires_in_days) ==
    Append(keys, [key_id |-> Len(keys) + 1, api_key |-> TokenOf(Len(keys) + 1),
                  expires_at |-> time + expires_in_days,
                  is_active |-> TRUE])

\* api/auth.py:76-92: the first stored key with this token that is active and
\* not yet expired.
Verifies(keys, time, token) ==
    {n \in 1..Len(keys) : /\ keys[n].api_key = token
                            /\ keys[n].is_active
                            /\ keys[n].expires_at > time}
verify_api_key(keys, time, token) ==
    IF Verifies(keys, time, token) = {} THEN NoKey
    ELSE keys[CHOOSE n \in Verifies(keys, time, token) :
                  \A m \in Verifies(keys, time, token) : n <= m]

\* core/auth.py:12-40 and api/auth.py:163-169: 401, or 0 when the key passes.
get_api_key(keys, time, token) ==
    IF ~Truthy(token) THEN 401
    ELSE IF verify_api_key(keys, time, token) = NoKey THEN 401
    ELSE 0

\* Mutant: revoking flips the flag.
ActiveAfterRevoke_Toggle(is_active) == ~is_active
\* api/auth.py:180: api_keys[key_id]["is_active"] = False
ActiveAfterRevoke(is_active) == FALSE

IdleEndpoint ==
    [pc |-> "idle", endpoint |-> "none", presented |-> None, checked |-> FALSE,
     rating |-> 0, status |-> 0, data |-> "none", stored |-> FALSE]
Answer(endpoint, presented, checked, status, data, stored) ==
    [pc |-> "done", endpoint |-> endpoint, presented |-> presented,
     checked |-> checked, rating |-> 0, status |-> status, data |-> data,
     stored |-> stored]

\* POST /auth/keys: create_key (api/auth.py:95-120).
CreateKey(expires_in_days) ==
    /\ Len(api_keys) < MaxKeys
    /\ api_keys' = create_api_key(api_keys, now, expires_in_days)
    /\ UNCHANGED <<now, endpoint_call>>

\* DELETE /auth/keys/{key_id}: revoke_key (api/auth.py:159-185).
RevokeKey(key_id, presented) ==
    /\ endpoint_call.pc = "idle"
    /\ LET denied == get_api_key(api_keys, now, presented)
       IN  IF denied # 0
           THEN /\ endpoint_call' = Answer("DELETE /auth/keys", presented, TRUE, denied, "none", FALSE)
                /\ UNCHANGED api_keys
           ELSE IF key_id \notin 1..Len(api_keys)
           THEN /\ endpoint_call' = Answer("DELETE /auth/keys", presented, TRUE, 404, "none", FALSE)
                /\ UNCHANGED api_keys
           ELSE /\ api_keys' = [api_keys EXCEPT ![key_id].is_active = ActiveAfterRevoke(@)]
                /\ endpoint_call' = Answer("DELETE /auth/keys", presented, TRUE, 204, "none", FALSE)
    /\ UNCHANGED now

\* Time passes.
Tick ==
    /\ now < MaxTime
    /\ now' = now + 1
    /\ UNCHANGED <<api_keys, endpoint_call>>

\* POST /generate (api/generate.py:43-44): Depends(get_api_key), then the
\* handler.
PostGenerate(presented) ==
    /\ endpoint_call.pc = "idle"
    /\ LET denied == get_api_key(api_keys, now, presented)
       IN  endpoint_call' =
               IF denied # 0
               THEN Answer("POST /generate", presented, TRUE, denied, "none", FALSE)
               ELSE Answer("POST /generate", presented, TRUE, 200, "text", FALSE)
    /\ UNCHANGED <<api_keys, now>>

\* api/feedback.py:71-72: except Exception catches what the try block raised,
\* the handler's own HTTPException included, and answers 500.
SubmitFeedbackStatus(raised) == 500

\* POST /feedback (api/feedback.py:35-72): Depends(get_api_key); the rating
\* is checked inside the try block; store_feedback; the answer.
PostFeedback(presented, rating, outcome) ==
    /\ endpoint_call.pc = "idle"
    /\ LET denied == get_api_key(api_keys, now, presented)
       IN  endpoint_call' = [rating |-> rating] @@
               IF denied # 0
               THEN Answer("POST /feedback", presented, TRUE, denied, "none", FALSE)
               ELSE IF rating < 1 \/ rating > 5
               THEN Answer("POST /feedback", presented, TRUE,
                           SubmitFeedbackStatus(400), "none", FALSE)
               ELSE IF outcome = "raises"
               THEN Answer("POST /feedback", presented, TRUE,
                           SubmitFeedbackStatus(0), "none", FALSE)
               ELSE Answer("POST /feedback", presented, TRUE, 200, "feedback_id",
                           outcome = "inserted")
    /\ UNCHANGED <<api_keys, now>>

\* GET /feedback/{feedback_id} (api/feedback.py:74-92): no dependency on
\* get_api_key; the row get_feedback finds, or 404.
GetFeedback(presented, found) ==
    /\ endpoint_call.pc = "idle"
    /\ endpoint_call' =
           IF found THEN Answer("GET /feedback/{feedback_id}", presented, FALSE, 200, "feedback", FALSE)
           ELSE Answer("GET /feedback/{feedback_id}", presented, FALSE, 404, "none", FALSE)
    /\ UNCHANGED <<api_keys, now>>

\* GET /feedback/request/{request_id} (api/feedback.py:94-109): no dependency
\* on get_api_key; get_feedback_by_request calls db_service.find, which the
\* service lacks, and returns [] from its handler (learning.py:204-213).
GetFeedbackByRequest(presented) ==
    /\ endpoint_call.pc = "idle"
    /\ endpoint_call' =
           Answer("GET /feedback/request/{request_id}", presented, FALSE, 200,
                  IF CallRaises("find") THEN "empty list" ELSE "feedback", FALSE)
    /\ UNCHANGED <<api_keys, now>>

\* The next request.
EndpointAgain ==
    /\ endpoint_call.pc = "done"
    /\ endpoint_call' = IdleEndpoint
    /\ UNCHANGED <<api_keys, now>>

AuthInit ==
    /\ api_keys = <<>>
    /\ now = 0
    /\ endpoint_call = IdleEndpoint
AuthIdle == AuthInit

(***************************************************************************)
(* Specifications                                                          *)
(***************************************************************************)
NotGenVars    == <<searchVars, pipeVars, knowVars, decideVars, reasonVars, formatVars, learnVars, contextVars, extractVars, authVars>>
NotSearchVars == <<genVars, pipeVars, knowVars, decideVars, reasonVars, formatVars, learnVars, contextVars, extractVars, authVars>>
NotPipeVars   == <<genVars, searchVars, knowVars, decideVars, reasonVars, formatVars, learnVars, contextVars, extractVars, authVars>>
NotKnowVars   == <<genVars, searchVars, pipeVars, decideVars, reasonVars, formatVars, learnVars, contextVars, extractVars, authVars>>
NotDecideVars == <<genVars, searchVars, pipeVars, knowVars, reasonVars, formatVars, learnVars, contextVars, extractVars, authVars>>
NotReasonVars == <<genVars, searchVars, pipeVars, knowVars, decideVars, formatVars, learnVars, contextVars, extractVars, authVars>>
NotFormatVars == <<genVars, searchVars, pipeVars, knowVars, decideVars, reasonVars, learnVars, contextVars, extractVars, authVars>>
NotLearnVars == <<genVars, searchVars, pipeVars, knowVars, decideVars, reasonVars, formatVars, contextVars, extractVars, authVars>>
NotContextVars == <<genVars, searchVars, pipeVars, knowVars, decideVars, reasonVars, formatVars, learnVars, extractVars, authVars>>
NotExtractVars == <<genVars, searchVars, pipeVars, knowVars, decideVars, reasonVars, formatVars, learnVars, contextVars, authVars>>
NotAuthVars == <<genVars, searchVars, pipeVars, knowVars, decideVars, reasonVars, formatVars, learnVars, contextVars, extractVars>>

\* generate() calls, each started only when no other call is in flight.
SeqStart == \E c \in Calls, k \in Overrides :
    NoCallInFlight /\ GenStart(c, k) /\ UNCHANGED NotGenVars
SeqResponse == \E c \in Calls, ok \in BOOLEAN :
    GenResponse(c, ok) /\ UNCHANGED NotGenVars
SeqRetry == \E c \in Calls : GenRetry(c) /\ UNCHANGED NotGenVars

InitGen    == GenInit /\ SearchIdle /\ PipeIdle /\ KnowIdle /\ DecideIdle /\ ReasonIdle /\ FormatIdle /\ LearnIdle /\ ContextIdle /\ ExtractIdle /\ AuthIdle
NextGenSeq == SeqStart \/ SeqResponse \/ SeqRetry
SpecGenSeq == InitGen /\ [][NextGenSeq]_vars

\* generate() calls interleaved at their suspension points (one event loop).
ConcStart == \E c \in Calls, k \in Overrides :
    GenStart(c, k) /\ UNCHANGED NotGenVars
ConcResponse == \E c \in Calls, ok \in BOOLEAN :
    GenResponse(c, ok) /\ UNCHANGED NotGenVars
ConcRetry == \E c \in Calls : GenRetry(c) /\ UNCHANGED NotGenVars

NextGen == ConcStart \/ ConcResponse \/ ConcRetry
SpecGen == InitGen /\ [][NextGen]_vars

\* search() calls on the shared SearchService.
SearchCall == \E k \in SearchKeys \cup {None}, e \in EngineIds \cup {None} :
    Search(k, e) /\ UNCHANGED NotSearchVars

InitSearch == SearchInit /\ GenIdle /\ PipeIdle /\ KnowIdle /\ DecideIdle /\ ReasonIdle /\ FormatIdle /\ LearnIdle /\ ContextIdle /\ ExtractIdle /\ AuthIdle
NextSearch == SearchCall
SpecSearch == InitSearch /\ [][NextSearch]_vars

\* One generate() call with drawn arguments.
ParamsStart    == GenStart(1, None) /\ UNCHANGED NotGenVars
ParamsResponse == \E ok \in BOOLEAN : GenResponse(1, ok) /\ UNCHANGED NotGenVars
ParamsRetry    == GenRetry(1) /\ UNCHANGED NotGenVars

InitParams == ParamsInit /\ SearchIdle /\ PipeIdle /\ KnowIdle /\ DecideIdle /\ ReasonIdle /\ FormatIdle /\ LearnIdle /\ ContextIdle /\ ExtractIdle /\ AuthIdle
NextParams == ParamsStart \/ ParamsResponse \/ ParamsRetry
SpecParams == InitParams /\ [][NextParams]_vars

\* The request handlers, interleaved at their awaits.
PipeReceiveGenerate == \E r \in Requests : ReceiveGenerate(r) /\ UNCHANGED NotPipeVars
PipeReceiveChat == \E r \in Requests, has_user, session_given \in BOOLEAN,
                      key \in {None, <<"sk-live", "c1">>} :
    ReceiveChat(r, has_user, session_given, key) /\ UNCHANGED NotPipeVars
PipeContextReturns == \E r \in Requests : ContextReturns(r) /\ UNCHANGED NotPipeVars
PipeKnowledgeReturns == \E r \in Requests, v \in {"hits", "empty"} :
    KnowledgeReturns(r, v) /\ UNCHANGED NotPipeVars
PipeReasoningReturns == \E r \in Requests, v \in {"analysis", "fallback"} :
    ReasoningReturns(r, v) /\ UNCHANGED NotPipeVars
PipeGenerationReturns == \E r \in Requests : GenerationReturns(r) /\ UNCHANGED NotPipeVars
PipeGenerationRaises == \E r \in Requests : GenerationRaises(r) /\ UNCHANGED NotPipeVars
PipeFormattingReturns == \E r \in Requests, v \in {"formatted", "original"} :
    FormattingReturns(r, v) /\ UNCHANGED NotPipeVars

InitPipe == PipeInit /\ GenIdle /\ SearchIdle /\ KnowIdle /\ DecideIdle /\ ReasonIdle /\ FormatIdle /\ LearnIdle /\ ContextIdle /\ ExtractIdle /\ AuthIdle
NextPipe ==
    \/ PipeReceiveGenerate \/ PipeReceiveChat \/ PipeContextReturns
    \/ PipeKnowledgeReturns \/ PipeReasoningReturns \/ PipeGenerationReturns
    \/ PipeGenerationRaises \/ PipeFormattingReturns
SpecPipe == InitPipe /\ [][NextPipe]_vars

\* retrieve_knowledge, one call after another.
KnowStart == \E context \in KnowledgeOptions :
    RetrieveStart(context) /\ UNCHANGED NotKnowVars
KnowVectorSearchReturns == \E outcome \in VectorOutcomes :
    VectorSearchReturns(outcome) /\ UNCHANGED NotKnowVars
KnowExternalSearchReturns == \E outcome \in ExternalOutcomes :
    ExternalSearchReturns(outcome) /\ UNCHANGED NotKnowVars
KnowAgain == RetrieveAgain /\ UNCHANGED NotKnowVars

InitKnow == KnowInit /\ GenIdle /\ SearchIdle /\ PipeIdle /\ DecideIdle /\ ReasonIdle /\ FormatIdle /\ LearnIdle /\ ContextIdle /\ ExtractIdle /\ AuthIdle
NextKnow ==
    \/ KnowStart \/ KnowVectorSearchReturns \/ KnowExternalSearchReturns
    \/ KnowAgain
SpecKnow == InitKnow /\ [][NextKnow]_vars

\* _should_perform_external_search on drawn arguments.
DecideOnce == Decide /\ UNCHANGED NotDecideVars

InitDecide == DecideInit /\ GenIdle /\ SearchIdle /\ PipeIdle /\ KnowIdle /\ ReasonIdle /\ FormatIdle /\ LearnIdle /\ ContextIdle /\ ExtractIdle /\ AuthIdle
NextDecide == DecideOnce
SpecDecide == InitDecide /\ [][NextDecide]_vars

\* analyze, one call after another.
ReasonStart == \E knowledge_context \in AnalyzedKnowledge :
    AnalyzeStart(knowledge_context) /\ UNCHANGED NotReasonVars
ReasonLLMReturns == \E outcome \in LLMOutcomes :
    LLMReturns(outcome) /\ UNCHANGED NotReasonVars
ReasonAgain == AnalyzeAgain /\ UNCHANGED NotReasonVars

InitReason ==
    ReasonInit /\ GenIdle /\ SearchIdle /\ PipeIdle /\ KnowIdle /\ DecideIdle /\ FormatIdle /\ LearnIdle /\ ContextIdle /\ ExtractIdle /\ AuthIdle
NextReason == ReasonStart \/ ReasonLLMReturns \/ ReasonAgain
SpecReason == InitReason /\ [][NextReason]_vars

\* retrieve_knowledge called twice with the same arguments against backends
\* that answer the second call as they answered the first.
TwiceStart == \E context \in KnowledgeOptions :
    RetrieveStart(context) /\ UNCHANGED NotKnowVars
TwiceVectorSearchReturns == \E outcome \in VectorOutcomes :
    /\ retrieval.first # NoCall => outcome = retrieval.first.vector
    /\ VectorSearchReturns(outcome) /\ UNCHANGED NotKnowVars
TwiceExternalSearchReturns == \E outcome \in ExternalOutcomes :
    /\ retrieval.first # NoCall => outcome = retrieval.first.external
    /\ ExternalSearchReturns(outcome) /\ UNCHANGED NotKnowVars
TwiceRepeat == RetrieveRepeat /\ UNCHANGED NotKnowVars

NextKnowTwice ==
    \/ TwiceStart \/ TwiceVectorSearchReturns \/ TwiceExternalSearchReturns
    \/ TwiceRepeat
SpecKnowTwice == InitKnow /\ [][NextKnowTwice]_vars

Spec == SpecGen

\* format_response, one call after another.
FormatCall ==
    /\ formatting.pc = "idle"
    /\ \E content \in Texts, context \in FormatContexts, backend \in BackendOutcomes :
           FormatResponse(content, context, backend)
    /\ UNCHANGED NotFormatVars
FormatNext == FormatAgain /\ UNCHANGED NotFormatVars

InitFormat ==
    FormatInit /\ GenIdle /\ SearchIdle /\ PipeIdle /\ KnowIdle /\ DecideIdle /\ ReasonIdle /\ LearnIdle /\ ContextIdle /\ ExtractIdle /\ AuthIdle
NextFormat == FormatCall \/ FormatNext
SpecFormat == InitFormat /\ [][NextFormat]_vars

\* Feedback: submissions to LearningProtocol.process_feedback and calls of the
\* adaptive analyzer.
LearnSubmit ==
    /\ \E s \in Submissions, rating \in SubmittedRatings, outcome \in InsertOutcomes :
           ProcessFeedback(s, rating, "<absent>", "<absent>", outcome)
    /\ UNCHANGED NotLearnVars
LearnAdaptive ==
    /\ \E rating \in SubmittedRatings : AdaptiveProcessFeedback(rating)
    /\ UNCHANGED NotLearnVars
InitLearn ==
    LearnInit /\ GenIdle /\ SearchIdle /\ PipeIdle /\ KnowIdle /\ DecideIdle /\ ReasonIdle /\ FormatIdle /\ ContextIdle /\ ExtractIdle /\ AuthIdle
NextLearn == LearnSubmit \/ LearnAdaptive
SpecLearn == InitLearn /\ [][NextLearn]_vars

\* One submission of a feedback with a type and a comment, stored.
TypedSubmit ==
    /\ \E rating \in SubmittedRatings, feedback_type \in FeedbackTypes,
          comment \in Comments :
           ProcessFeedback(1, rating, feedback_type, comment, "inserted")
    /\ UNCHANGED NotLearnVars
NextTyped == TypedSubmit
SpecTyped == InitLearn /\ [][NextTyped]_vars

\* Conversation contexts: calls of manage_context.
ContextManage ==
    /\ \E session_id \in SessionIds, messages \in MessageLists(MaxMessages),
          written \in BOOLEAN :
           ManageContext(session_id, messages, written)
    /\ UNCHANGED NotContextVars
InitContext ==
    ContextInit /\ GenIdle /\ SearchIdle /\ PipeIdle /\ KnowIdle /\ DecideIdle /\ ReasonIdle /\ FormatIdle /\ LearnIdle /\ ExtractIdle /\ AuthIdle
NextContext == ContextManage
SpecContext == InitContext /\ [][NextContext]_vars

\* One extraction from a backend response.
ExtractCall ==
    /\ \E result \in Responses, model \in ModelNames : ExtractGeneratedText(result, model)
    /\ UNCHANGED NotExtractVars
InitExtract ==
    ExtractInit /\ GenIdle /\ SearchIdle /\ PipeIdle /\ KnowIdle /\ DecideIdle /\ ReasonIdle /\ FormatIdle /\ LearnIdle /\ ContextIdle /\ AuthIdle
NextExtract == ExtractCall
SpecExtract == InitExtract /\ [][NextExtract]_vars

\* Keys are created and revoked, time passes, and requests arrive at the
\* endpoints.
AuthCreate == (\E d \in ExpiryDays : CreateKey(d)) /\ UNCHANGED NotAuthVars
AuthRevoke ==
    /\ \E key_id \in 1..MaxKeys, presented \in PresentedKeys : RevokeKey(key_id, presented)
    /\ UNCHANGED NotAuthVars
AuthTick == Tick /\ UNCHANGED NotAuthVars
AuthGenerate == (\E presented \in PresentedKeys : PostGenerate(presented)) /\ UNCHANGED NotAuthVars
AuthPostFeedback ==
    /\ \E presented \in PresentedKeys, rating \in {0, 3, 6}, outcome \in InsertOutcomes :
           PostFeedback(presented, rating, outcome)
    /\ UNCHANGED NotAuthVars
AuthGetFeedback ==
    /\ \E presented \in PresentedKeys, found \in BOOLEAN : GetFeedback(presented, found)
    /\ UNCHANGED NotAuthVars
AuthGetFeedbackByRequest ==
    /\ \E presented \in PresentedKeys : GetFeedbackByRequest(presented)
    /\ UNCHANGED NotAuthVars
AuthAgain == EndpointAgain /\ UNCHANGED NotAuthVars
InitAuth ==
    AuthInit /\ GenIdle /\ SearchIdle /\ PipeIdle /\ KnowIdle /\ DecideIdle /\ ReasonIdle /\ FormatIdle /\ LearnIdle /\ ContextIdle /\ ExtractIdle
NextAuth ==
    \/ AuthCreate \/ AuthRevoke \/ AuthTick \/ AuthGenerate \/ AuthPostFeedback
    \/ AuthGetFeedback \/ AuthGetFeedbackByRequest \/ AuthAgain
SpecAuth == InitAuth /\ [][NextAuth]_vars

(***************************************************************************)
(* Claims                                                                  *)
(***************************************************************************)
Done(c) == calls[c].pc = "done"

\* C1: when generate() calls run one at a time, a call made with a caller
\* credential leaves the shared instance's credential as it found it, whether
\* the backend answered, failed three times or the mock path was taken.
C1_SequentialCredentialScoping ==
    \A c \in Calls :
        (Done(c) /\ Truthy(calls[c].key)) => calls[c].after = calls[c].before

\* Two finished calls with caller credentials, one that returned text from the
\* backend and one whose backend call raised.
C1_Witness ==
    \E c, d \in Calls :
        /\ Done(c) /\ Truthy(calls[c].key) /\ calls[c].outcome = "returned"
        /\ Done(d) /\ Truthy(calls[d].key) /\ calls[d].outcome = "raised"
        /\ calls[d].attempt = MaxAttempts

\* C2: once every generate() call has finished, the shared instance holds the
\* server's default credential again, whatever the interleaving was.
C2_DefaultRestoredWhenAllFinished ==
    (\A c \in Calls : Done(c)) => api_key = default_key

\* C3: a call made without a caller credential sends the server's default
\* credential to the backend, whatever other calls are in flight.
C3_NoOverrideSendsDefault ==
    \A c \in Calls :
        (~Truthy(calls[c].key) /\ calls[c].sent # None)
            => calls[c].sent = default_key

\* C4: a search() call that supplies no credentials takes the no-credential
\* path, whatever calls came before it on the instance.
C4_SearchCredentialsScopedToCall ==
    \A i \in 1..Len(search_log) :
        (~Truthy(search_log[i].api_key) /\ ~Truthy(search_log[i].search_engine_id))
            => search_log[i].path = "mock"

\* C5 as stated: every value the override supplies reaches the backend.
C5_OverrideValueAlwaysWins ==
    calls[1].pc # "idle" =>
        LET cfg == inputs[1].llm_config
            ctx == inputs[1].context
            a   == calls[1].args
        IN  /\ a.max_tokens =
                   IF "max_tokens" \in DOMAIN cfg THEN cfg["max_tokens"]
                   ELSE GetOr(ctx, "max_tokens", PyInt(1000))
            /\ a.temperature =
                   IF "temperature" \in DOMAIN cfg THEN cfg["temperature"]
                   ELSE GetOr(ctx, "temperature", PyInt(7))
            /\ a.backend_model =
                   IF "model" \in DOMAIN cfg THEN cfg["model"]
                   ELSE <<"gpt-3.5-turbo">>

\* C5 amended: the override's temperature always wins (0.0 included), its
\* max_tokens whenever it is not 0, its model whenever it is not empty;
\* otherwise the context's value when the context has the key, otherwise
\* 1000, 0.7 and the instance's default model.
C5_OverrideWinsUnlessFalsy ==
    calls[1].pc # "idle" =>
        LET cfg == inputs[1].llm_config
            ctx == inputs[1].context
            a   == calls[1].args
            mt  == "max_tokens" \in DOMAIN cfg /\ cfg["max_tokens"] # PyInt(0)
            tp  == "temperature" \in DOMAIN cfg
            md  == "model" \in DOMAIN cfg /\ cfg["model"] # EmptyStr
        IN  /\ mt => a.max_tokens = cfg["max_tokens"]
            /\ (~mt /\ "max_tokens" \in DOMAIN ctx)
                   => a.max_tokens = ctx["max_tokens"]
            /\ (~mt /\ "max_tokens" \notin DOMAIN ctx)
                   => a.max_tokens = PyInt(1000)
            /\ tp => a.temperature = cfg["temperature"]
            /\ (~tp /\ "temperature" \in DOMAIN ctx)
                   => a.temperature = ctx["temperature"]
            /\ (~tp /\ "temperature" \notin DOMAIN ctx)
                   => a.temperature = PyInt(7)
            /\ md => a.backend_model = cfg["model"]
            /\ ~md => a.backend_model = <<"gpt-3.5-turbo">>

\* Context temperature 0.7 with override temperature 0.2 sends 0.2; in the same
\* call an override max_tokens of 0 leaves the context's 500 in place.
C5_Witness ==
    /\ calls[1].pc = "posted"
    /\ Get(inputs[1].context, "temperature") = PyInt(7)
    /\ Get(inputs[1].llm_config, "temperature") = PyInt(2)
    /\ calls[1].args.temperature = PyInt(2)
    /\ Get(inputs[1].context, "max_tokens") = PyInt(500)
    /\ Get(inputs[1].llm_config, "max_tokens") = PyInt(0)
    /\ calls[1].args.max_tokens = PyInt(500)

\* The five layers of the options map, lowest first: the keys each source
\* sets, with the values it sets them to.
OptionLayers(inp) ==
    << [format |-> GetOr(inp.context, "format", <<"text">>),
        domain |-> Get(inp.context, "domain")],
       [key \in {k \in {"suggested_format", "tone"} :
                    Truthy(Get(inp.reasoning_result, k))} |->
            inp.reasoning_result[key]],
       [key \in {k \in {"sources"} : Truthy(Get(inp.knowledge_context, k))} |->
            inp.knowledge_context[key]],
       DictGet(inp.context, "options"),
       DictGet(inp.llm_config, "options") >>

\* The key under which a layer's entry appears in the options map.
OptionKeyOf(k) == IF k = "suggested_format" THEN "format" ELSE k

\* The layers that set an options key, by number.
LayersSetting(inp, key) ==
    {i \in 1..5 : \E k \in DOMAIN OptionLayers(inp)[i] : OptionKeyOf(k) = key}

\* C6: the options map passed to the backend holds exactly the keys some
\* layer sets, each with the value of the highest layer that sets it.
C6_OptionsMergedByPrecedence ==
    calls[1].pc # "idle" =>
        LET inp  == inputs[1]
            opts == calls[1].args.options
            keys == {"format", "domain", "tone", "sources", "x"}
        IN  \A key \in keys :
                LET setBy == LayersSetting(inp, key)
                IN  IF setBy = {} THEN key \notin DOMAIN opts
                    ELSE LET top == CHOOSE i \in setBy : \A j \in setBy : j <= i
                             src == CHOOSE k \in DOMAIN OptionLayers(inp)[top] :
                                        OptionKeyOf(k) = key
                         IN  /\ key \in DOMAIN opts
                             /\ opts[key] = OptionLayers(inp)[top][src]

\* The tone 'formal' of the reasoning result survives an override
\* {temperature: 0.2, options: {x: 1}}, whose x is passed on too.
C6_Witness ==
    /\ calls[1].pc = "posted"
    /\ Get(inputs[1].reasoning_result, "tone") = <<"formal">>
    /\ "options" \notin DOMAIN inputs[1].context
    /\ inputs[1].llm_config = [temperature |-> PyInt(2),
                               options |-> [x |-> PyInt(1)]]
    /\ calls[1].args.options["tone"] = <<"formal">>
    /\ calls[1].args.options["x"] = PyInt(1)
    /\ calls[1].args.temperature = PyInt(2)

\* The order generate.py:64-83 names the stages in.
StageOrder == <<"knowledge", "reasoning", "generation", "formatting">>

GenerateResponseFields == {"text", "request_id", "metadata"}
ChatResponseFields == {"message", "session_id", "request_id", "metadata"}

\* C7: within one /generate request the stages are called in the order
\* knowledge, reasoning, generation, formatting; each call follows the return
\* of the stage before it and is given the outputs the earlier stages of this
\* request returned; a request that answers has run each of the four exactly
\* once and answers with what formatting returned.
C7_GenerateStagesInOrder ==
    \A r \in Requests : requests[r].endpoint = "generate" =>
        LET log == requests[r].log IN
        /\ Len(log) <= 8
        /\ \A i \in 1..Len(log) :
              /\ log[i].stage = StageOrder[(i + 1) \div 2]
              /\ log[i].ev = IF i % 2 = 1 THEN "call" ELSE "return"
        /\ Len(log) >= 3 => log[3].val = <<log[2].val>>
        /\ Len(log) >= 5 => log[5].val = <<log[4].val, log[2].val>>
        /\ Len(log) >= 7 => log[7].val = <<log[6].val>>
        /\ requests[r].pc = "responded" =>
              Len(log) = 8 /\ requests[r].response.text = log[8].val

\* A /generate request has answered while another request was under way.
C7_Witness ==
    \E r, q \in Requests :
        /\ r # q
        /\ requests[r].endpoint = "generate" /\ requests[r].pc = "responded"
        /\ requests[q].endpoint = "generate" /\ Len(requests[q].log) >= 3

\* C8: a /generate request whose generation stage raised never calls the
\* formatting stage and ends with HTTP 500 and no response object; every
\* response object a /generate request returns has text, request_id and
\* metadata.
C8_GenerationErrorIsExplicit ==
    \A r \in Requests : requests[r].endpoint = "generate" =>
        /\ requests[r].error = "generation" =>
              /\ requests[r].status = 500
              /\ requests[r].response = EmptyDict
              /\ \A i \in 1..Len(requests[r].log) :
                    requests[r].log[i].stage # "formatting"
        /\ requests[r].pc \in {"responded", "failed"} =>
              \/ requests[r].status = 500 /\ requests[r].response = EmptyDict
              \/ /\ requests[r].status = 200
                 /\ DOMAIN requests[r].response = GenerateResponseFields
                 /\ requests[r].response.text # None
                 /\ requests[r].response.request_id # None
        /\ requests[r].pc \notin {"responded", "failed"} =>
              requests[r].status = 0 /\ requests[r].response = EmptyDict

\* The generation stage of a /generate request has raised.
C8_Witness ==
    \E r \in Requests :
        /\ requests[r].endpoint = "generate"
        /\ requests[r].error = "generation"
        /\ requests[r].pc = "failed"

\* C9: a /chat request that carries a user message and has ended without any
\* stage raising has returned a response with the assistant message, the
\* session_id, a request_id and metadata.
C9_ChatWithUserMessageResponds ==
    \A r \in Requests :
        (/\ requests[r].endpoint = "chat"
         /\ requests[r].has_user
         /\ requests[r].pc \in {"responded", "failed"}
         /\ requests[r].error # "generation")
        => /\ requests[r].status = 200
           /\ DOMAIN requests[r].response = ChatResponseFields

KnowledgeContextKeys == {"relevant_info", "sources", "confidence"}

\* The sub-search failed, returned nothing, or was not made.
NothingFound(outcome) == outcome.kind # "results" \/ outcome.results = <<>>

\* C10: retrieve_knowledge never raises; whatever the vector search and the
\* external search gave back (results, nothing, an exception), a finished
\* call has returned a dict with exactly the keys relevant_info, sources and
\* confidence, and when neither sub-search found anything that dict is
\* {relevant_info: [], sources: [], confidence: 0.0}.
C10_RetrieveKnowledgeNeverRaises ==
    /\ ~retrieval.raised
    /\ retrieval.pc = "done" =>
          /\ DOMAIN retrieval.result = KnowledgeContextKeys
          /\ (NothingFound(retrieval.vector) /\ NothingFound(retrieval.external)) =>
                retrieval.result = [relevant_info |-> <<>>, sources |-> <<>>,
                                    confidence |-> Float(0)]

\* A call has finished after both sub-searches raised.
C10_Witness ==
    /\ retrieval.pc = "done"
    /\ retrieval.vector.kind = "exception"
    /\ retrieval.external.kind = "exception"
    /\ retrieval.result.relevant_info = <<>>

\* C11: external search is skipped exactly when it is not forced by
\* always_search_external and the confidence after the vector search is at
\* least sufficient_confidence (0.85 when the context does not give one);
\* neither the number of hits nor min_relevant_info changes the decision.
C11_ExternalSearchDecision ==
    decision.pc = "decided" =>
        LET context   == decision.context
            forced    == "always_search_external" \in DOMAIN context
                         /\ context["always_search_external"]
            threshold == IF "sufficient_confidence" \in DOMAIN context
                         THEN context["sufficient_confidence"][2] ELSE 85
        IN  decision.result =
                (forced \/ decision.knowledge_context.confidence[2] < threshold)

\* Two hits at confidence 0.85, no option set: the search is skipped.
C11_Witness ==
    /\ decision.pc = "decided"
    /\ decision.context = EmptyDict
    /\ decision.knowledge_context.confidence = Float(85)
    /\ Len(decision.knowledge_context.relevant_info) = 2
    /\ decision.result = FALSE

\* The sub-searches of the call so far are the vector search, or the vector
\* search followed by one external search.
VectorSearchFirst ==
    retrieval.log # <<>> =>
        retrieval.log \in {<<"vector">>, <<"vector", "external">>}

Forced(context) ==
    "always_search_external" \in DOMAIN context /\ context["always_search_external"]

\* C12 as stated: the vector search comes first, and a finished call whose
\* vector search found nothing and whose external search was not forced has
\* made exactly one external search after it.
C12_ExternalSearchAfterEmptyVector ==
    /\ VectorSearchFirst
    /\ (/\ retrieval.pc = "done"
        /\ NothingFound(retrieval.vector)
        /\ ~Forced(retrieval.context))
       => retrieval.log = <<"vector", "external">>

\* C12 amended: the vector search comes first, and a finished call whose
\* vector search found nothing has made exactly one external search after it
\* whenever the search was forced or sufficient_confidence is above 0 (a
\* threshold of 0 is met by the confidence 0.0 of an empty result, and the
\* external search is then skipped).
C12_ExternalSearchUnlessThresholdZero ==
    /\ VectorSearchFirst
    /\ (/\ retrieval.pc = "done"
        /\ NothingFound(retrieval.vector)
        /\ \/ Forced(retrieval.context)
           \/ GetOr(retrieval.context, "sufficient_confidence", Float(85))[2] > 0)
       => retrieval.log = <<"vector", "external">>

\* An empty store, no option set: the call has gone on to the external search.
C12_Witness ==
    /\ retrieval.pc = "done"
    /\ retrieval.context = EmptyDict
    /\ retrieval.vector = [kind |-> "results", results |-> <<>>]
    /\ retrieval.log = <<"vector", "external">>

\* The entries a finished call merged, vector results first (knowledge.py:54-67).
MergedInfo ==
    Extend(Extend(NewKnowledgeContext, perform_vector_search(retrieval.vector)),
           perform_external_search(retrieval.external)).relevant_info

\* Every merged entry has a number as its score.
ScoresAreNumbers == \A k \in 1..Len(MergedInfo) : MergedInfo[k].score # None

C14_RankedByScore ==
    (retrieval.pc = "done" /\ ScoresAreNumbers) =>
        LET out == retrieval.result.relevant_info IN
        \A i, j \in 1..Len(out) : i < j => out[i].score[2] >= out[j].score[2]

\* Vector results "a" at 0.6 then "b" at 0.9 and an external "c" at 0.8 come
\* back as b, c, a.
C14_Witness ==
    /\ retrieval.pc = "done"
    /\ Len(retrieval.vector.results) = 2
    /\ retrieval.vector.results[1].score = Float(60)
    /\ retrieval.vector.results[2].score = Float(90)
    /\ Len(retrieval.result.relevant_info) = 3
    /\ retrieval.result.relevant_info[1].content = "b"
    /\ retrieval.result.relevant_info[2] =
          [content |-> "c", score |-> Float(80), source |-> "web"]
    /\ retrieval.result.relevant_info[3].content = "a"

ExceptionEscaped(call) ==
    /\ call.pc = "done"
    /\ \/ Len(call.results) < 4
       \/ \E i \in 1..Len(call.results) : ~IsDict(call.results[i])

\* C16: analyze never raises; whenever an exception escapes a step of the
\* chain it returns exactly the fallback result (intent unknown, domain
\* general, complexity medium, knowledge_sufficiency unknown, no key points,
\* format text, tone neutral, structure default).
C16_AnalyzeNeverRaises ==
    /\ ~analysis.raised
    /\ ExceptionEscaped(analysis) => analysis.result = FallbackResult

\* A call that ended in the fallback because the join of record entries raised
\* after step 1 had answered.
C16_Witness ==
    /\ ExceptionEscaped(analysis)
    /\ JoinRaises(analysis.knowledge_context)
    /\ Len(analysis.results) = 1
    /\ analysis.result = FallbackResult
    /\ ~analysis.raised

\* reasoning.py:73-82: the fields of the result that come from step n.
FieldsOfStep(n) ==
    CASE n = 1 -> {"intent", "domain", "complexity"}
      [] n = 2 -> {"knowledge_sufficiency"}
      [] n = 3 -> {"key_points"}
      [] n = 4 -> {"suggested_format", "tone", "structure"}

ResultFields ==
    {"intent", "domain", "complexity", "knowledge_sufficiency", "key_points",
     "suggested_format", "tone", "structure"}

\* The finished call met no fault but failed LLM calls and answers that are
\* not JSON: its knowledge entries are strings (or there are none) and every
\* answer that was JSON was the object asked for.
OnlyLLMFaults(call) ==
    /\ call.pc = "done"
    /\ ~JoinRaises(call.knowledge_context)
    /\ \A j \in 1..Len(call.outcomes) :
           call.outcomes[j] \in {"fail", "invalid", "object"}
    /\ \E j \in 1..Len(call.outcomes) : call.outcomes[j] \in {"fail", "invalid"}

\* What holds of a failed step: in the calls in which nothing but the LLM
\* fault goes wrong (knowledge entries that are strings, JSON answers that are
\* objects) the fields of the failed step take the step's defaults, the
\* fields of the other steps keep what their steps answered, and every step
\* runs.
C17_StepFailureKeepsChain ==
    OnlyLLMFaults(analysis) =>
        /\ ~analysis.fell_back /\ ~analysis.raised
        /\ Len(analysis.results) = 4
        /\ Len(reasoning_steps) = 4
        /\ DOMAIN analysis.result = ResultFields
        /\ \A j \in 1..Len(analysis.outcomes) :
               LET n == analysis.llm_calls[j].step
               IN  IF analysis.outcomes[j] \in {"fail", "invalid"}
                   THEN /\ analysis.results[n] = StepDefault(n)
                        /\ \A k \in FieldsOfStep(n) :
                               analysis.result[k] = FallbackResult[k]
                   ELSE \A k \in FieldsOfStep(n) :
                            analysis.result[k] # FallbackResult[k]

\* C17: when the LLM call of a step fails or answers with text that is not
\* JSON, only the fields of that step take the step's defaults, the later
\* steps still run, and analyze returns all eight fields: the chain is not
\* aborted and the whole-stage fallback is not used.
C17_AnyStepFailureKeepsChain ==
    (/\ analysis.pc = "done"
     /\ \E j \in 1..Len(analysis.outcomes) :
            /\ analysis.outcomes[j] \in {"fail", "invalid"}
            /\ \A k \in 1..Len(analysis.outcomes) :
                   k # j => analysis.outcomes[k] = "object") =>
        /\ ~analysis.fell_back /\ ~analysis.raised
        /\ Len(analysis.results) = 4
        /\ DOMAIN analysis.result = ResultFields
        /\ \A j \in 1..Len(analysis.outcomes) :
               analysis.outcomes[j] \in {"fail", "invalid"} =>
                   analysis.results[analysis.llm_calls[j].step]
                       = StepDefault(analysis.llm_calls[j].step)

\* Step 2 answered with text that is not JSON and step 4's call failed; the
\* steps 1 and 3 answered as asked and the call returned their values.
C17_Witness ==
    /\ OnlyLLMFaults(analysis)
    /\ analysis.outcomes = <<"object", "invalid", "object", "fail">>
    /\ analysis.result.knowledge_sufficiency = <<"unknown">>
    /\ analysis.result.intent = <<"information">>
    /\ analysis.result.suggested_format = <<"text">>
    /\ ~analysis.fell_back

\* reasoning.py:284-286: get_steps() of a call that has returned and was not
\* followed by another.
get_steps == reasoning_steps

\* C18: a call of analyze that does not fall back runs request analysis,
\* knowledge evaluation, key-point extraction and response planning in this
\* order, hands step 1's result to step 3 and the results of steps 3 and 1 to
\* step 4, and leaves exactly these four entries, in this order, for
\* get_steps(). (One call at a time on the instance.)
C18_FixedStepOrder ==
    /\ \A i \in 1..Len(reasoning_steps) : reasoning_steps[i].step = StepNames[i]
    /\ \A j \in 1..Len(analysis.llm_calls) : \A k \in 1..Len(analysis.llm_calls) :
           j < k => analysis.llm_calls[j].step < analysis.llm_calls[k].step
    /\ (analysis.pc = "done" /\ ~analysis.fell_back) =>
           /\ get_steps = [n \in 1..4 |-> StepEntry(n, analysis.results[n])]
           /\ analysis.steps = get_steps
           /\ \A j \in 1..Len(analysis.llm_calls) :
                  LET call == analysis.llm_calls[j]
                  IN  /\ call.step = 3 => call.given = <<analysis.results[1]>>
                      /\ call.step = 4 =>
                             call.given = <<analysis.results[3], analysis.results[1]>>

\* A call in which all four steps asked the LLM and were answered as asked.
C18_Witness ==
    /\ analysis.pc = "done" /\ ~analysis.fell_back
    /\ analysis.outcomes = <<"object", "object", "object", "object">>
    /\ Len(get_steps) = 4
    /\ analysis.llm_calls[4].given = <<LLMObject(3), LLMObject(1)>>

\* C19: on a knowledge context without relevant_info step 2 asks no LLM and
\* yields sufficiency "insufficient", so that a call of analyze on such a
\* context makes exactly three LLM calls and returns knowledge_sufficiency
\* "insufficient".
C19_EmptyKnowledgeThreeCalls ==
    RelevantInfo(analysis.knowledge_context) = <<>> =>
        /\ \A j \in 1..Len(analysis.llm_calls) : analysis.llm_calls[j].step # 2
        /\ Len(analysis.results) >= 2 =>
               analysis.results[2].sufficiency = <<"insufficient">>
        /\ analysis.pc = "done" =>
               /\ Len(analysis.llm_calls) = 3
               /\ analysis.result.knowledge_sufficiency = <<"insufficient">>

\* The generate() calls that returned a text.
Succeeded(c) == calls[c].pc = "done" /\ calls[c].outcome \in {"returned", "mock"}

\* The places of call c's entry in the history.
EntriesOf(c) ==
    {i \in 1..Len(generation_history) : generation_history[i] = history_entry(c)}

\* In this step call c returns its text.
Succeeds(c) == ~Succeeded(c) /\ Succeeded(c)'

\* C20: generate() lets a backend failure through to its caller and then
\* appends nothing to the generation history; every generate() that returns
\* appends exactly one entry, with its prompt and its content, so that the
\* history lists the successful calls in the order they completed and never
\* shrinks.
C20_HistoryOfSuccesses ==
    /\ [](\A c \in Calls :
            /\ (calls[c].pc = "done" /\ ~Succeeded(c)) => calls[c].outcome = "raised"
            /\ Succeeded(c) => Cardinality(EntriesOf(c)) = 1
            /\ ~Succeeded(c) => EntriesOf(c) = {})
    /\ [](Len(generation_history) = Cardinality({c \in Calls : Succeeded(c)}))
    /\ [][\/ generation_history' = generation_history
                /\ \A c \in Calls : ~Succeeds(c)
          \/ \E c \in Calls :
                /\ Succeeds(c)
                /\ generation_history' = Append(generation_history, history_entry(c))]_vars

\* One call failed for good and one returned: the history holds the entry of
\* the one that returned.
C20_Witness ==
    \E c \in Calls, d \in Calls :
        /\ calls[c].pc = "done" /\ calls[c].outcome = "raised"
        /\ calls[d].outcome = "returned"
        /\ generation_history = <<history_entry(d)>>

\* C21: format_response never raises, whatever the format field (json,
\* markdown, code, table, text, unknown, absent) and whatever the LLM backend
\* does: it always returns a string, and when formatting fails inside it
\* returns the original content unchanged.
C21_FormatNeverRaises ==
    formatting.pc = "done" =>
        /\ ~formatting.raised
        /\ formatting.result \in Seq(STRING)
        /\ formatting.failed => formatting.result = formatting.content

\* A markdown call whose citations could not be built (sources is a number):
\* the content comes back as it was given, not the markdown fallback.
C21_Witness ==
    /\ formatting.pc = "done" /\ formatting.failed /\ ~formatting.raised
    /\ formatting.context.format = "markdown"
    /\ formatting.content = <<"a", "\n", "a">>
    /\ formatting.result = formatting.content

Attempts(c) == calls[c].attempt

\* C28: generate_text makes at most three backend attempts in a call; it
\* returns the text of the first attempt that succeeds and makes no attempt
\* after it, and after three failed attempts in a row it hands the failure to
\* its caller instead of trying again.
C28_AtMostThreeAttempts ==
    /\ [](\A c \in Calls :
            /\ Attempts(c) <= 3
            /\ calls[c].outcome = "raised" => Attempts(c) = 3
            /\ calls[c].pc = "backoff" => Attempts(c) < 3)
    /\ [][\A c \in Calls :
            /\ calls[c].pc = "done" => calls'[c] = calls[c]
            /\ Attempts(c)' # Attempts(c) =>
                   /\ Attempts(c)' = Attempts(c) + 1
                   /\ calls[c].pc \in {"idle", "backoff"}
            /\ (calls[c].pc = "posted" /\ calls'[c].outcome = "returned") =>
                   calls'[c].pc = "done"]_vars

\* One call returned on its second attempt and another failed three times.
C28_Witness ==
    \E c \in Calls, d \in Calls :
        /\ calls[c].outcome = "returned" /\ Attempts(c) = 2
        /\ calls[d].outcome = "raised" /\ Attempts(d) = 3

\* ---------------------------------------------------------------------------
\* Feedback and learning metrics.
\* ---------------------------------------------------------------------------
Completed == {s \in Submissions : submissions[s].pc = "done"}
StoredOnes == {s \in Completed : submissions[s].insert = "inserted"}
RECURSIVE SumOfRatings(_)
SumOfRatings(S) ==
    IF S = {} THEN 0
    ELSE LET s == CHOOSE x \in S : TRUE
         IN submissions[s].feedback_data.rating + SumOfRatings(S \ {s})
StoredCount == GetOr(metrics_record, "total_feedback_count", 0)
StoredAverage == GetOr(metrics_record, "average_rating", [total |-> 0, count |-> 1])
StoredSentiments ==
    LET d == GetOr(metrics_record, "sentiment_distribution",
                   [positive |-> 0, neutral |-> 0, negative |-> 0])
    IN d.positive + d.neutral + d.negative

\* C23: once all the concurrent process_feedback calls have completed with
\* their feedback stored, the stored metrics record counts every one of them:
\* total_feedback_count is their number, average_rating is the mean of their
\* ratings and the sentiment counters sum to their number.
C23_NoLostUpdate ==
    (Completed = Submissions /\ StoredOnes = Submissions) =>
        /\ StoredCount = MaxSubmissions
        /\ StoredAverage.total * MaxSubmissions = SumOfRatings(Submissions) * StoredAverage.count
        /\ StoredSentiments = MaxSubmissions

\* C24: starting from no metrics record, after n submissions made one after
\* the other the stored record has total_feedback_count = n and
\* average_rating * n equal to the sum of the n ratings.
C24_RunningAverage ==
    LET n == Cardinality(Completed)
    IN (n > 0 /\ \A s \in Completed : submissions[s].result.status = "success") =>
           /\ StoredCount = n
           /\ StoredAverage.total * n = SumOfRatings(Completed) * StoredAverage.count

\* C25: whenever the feedback record was stored, process_feedback returns
\* status 'success' with the feedback_id and the analysis, whether or not the
\* metrics update succeeded.
C25_MetricsFailureIsNotAFailure ==
    \A s \in StoredOnes :
        LET result == submissions[s].result
        IN /\ result.status = "success"
           /\ "feedback_id" \in DOMAIN result /\ result.feedback_id = s
           /\ "analysis" \in DOMAIN result
           /\ result.analysis.sentiment \in {"positive", "neutral", "negative"}
C25_Witness ==
    \E s \in StoredOnes :
        /\ submissions[s].metrics_failed
        /\ metrics_record # submissions[s].computed
        /\ submissions[s].result.status = "success"

\* C26: if persisting the feedback record fails, process_feedback returns
\* status 'error' and neither the analysis nor the metrics update is performed.
C26_StoreFailureIsAnError ==
    \A s \in Completed \ StoredOnes :
        /\ submissions[s].result.status = "error"
        /\ submissions[s].analysis = EmptyDict
        /\ submissions[s].computed = NoMetrics

\* C29: for every rating r in 1..5 both analyzers classify the sentiment as
\* 'negative' iff r <= 2, 'neutral' iff r = 3 and 'positive' iff r >= 4, and
\* the two agree on every r.
Classified(r, sentiment) ==
    /\ sentiment = "negative" <=> r <= 2
    /\ sentiment = "neutral" <=> r = 3
    /\ sentiment = "positive" <=> r >= 4
Analysed ==
    {s \in Completed : /\ submissions[s].analysis # EmptyDict
                       /\ submissions[s].feedback_data.rating \in RatingScale}
C29_AnalyzersAgree ==
    /\ \A s \in Analysed :
           Classified(submissions[s].feedback_data.rating, submissions[s].analysis.sentiment)
    /\ (adaptive_feedback.pc = "done" /\ adaptive_feedback.rating \in RatingScale) =>
           /\ Classified(adaptive_feedback.rating, adaptive_feedback.sentiment)
           /\ \A s \in Analysed :
                  submissions[s].feedback_data.rating = adaptive_feedback.rating =>
                      submissions[s].analysis.sentiment = adaptive_feedback.sentiment
C29_Witness ==
    /\ adaptive_feedback.pc = "done" /\ adaptive_feedback.rating = 3
    /\ \E s \in Analysed : submissions[s].feedback_data.rating = 3
    /\ \E s \in Analysed : submissions[s].feedback_data.rating = 2

\* C30: for every submitted rating, the rating stored in the feedback record
\* and fed into the sentiment analysis and the metrics average lies in 1..5.
C30_RatingClamped ==
    /\ \A row \in feedback_table : row.rating \in RatingScale
    /\ \A s \in Completed : submissions[s].feedback_data.rating \in RatingScale

\* ---------------------------------------------------------------------------
\* Conversation contexts.
\* ---------------------------------------------------------------------------
\* C27: after every manage_context call for an already existing session, the
\* message sequence stored before the call is a prefix of the sequence stored
\* after it.
C27_TranscriptAppendOnly ==
    (last_manage.pc = "done" /\ last_manage.existed) =>
        IsPrefixOf(last_manage.before, last_manage.after)

\* ---------------------------------------------------------------------------
\* Tags of the feedback analysis.
\* ---------------------------------------------------------------------------
TypeTags == {ImprovementTag(t) : t \in TaggedTypes} \cup {StrengthTag(t) : t \in TaggedTypes}
TagsOf(analysis_result) ==
    {analysis_result.improvement_areas[i] : i \in DOMAIN analysis_result.improvement_areas}
    \cup {analysis_result.strengths[i] : i \in DOMAIN analysis_result.strengths}
TagCount(analysis_result, tag) ==
    Cardinality({i \in DOMAIN analysis_result.improvement_areas :
                     analysis_result.improvement_areas[i] = tag})
    + Cardinality({i \in DOMAIN analysis_result.strengths :
                     analysis_result.strengths[i] = tag})

\* C31: for each of the four tagged feedback types and each rating in 1..5
\* the analysis carries exactly one type-specific tag: the type's improvement
\* tag among the improvement areas when rating <= 3, the type's strength tag
\* among the strengths when rating >= 4; any other type adds none.
C31_OneTypeTag ==
    \A s \in Completed :
        LET fd == submissions[s].feedback_data
            a  == submissions[s].analysis
        IN (a # EmptyDict /\ fd.rating \in RatingScale) =>
               IF fd.feedback_type \in TaggedTypes
               THEN LET tag == IF fd.rating <= 3 THEN ImprovementTag(fd.feedback_type)
                               ELSE StrengthTag(fd.feedback_type)
                    IN /\ TagsOf(a) \cap TypeTags = {tag}
                       /\ TagCount(a, tag) = 1
                       /\ fd.rating <= 3 =>
                              \E i \in DOMAIN a.improvement_areas : a.improvement_areas[i] = tag
                       /\ fd.rating >= 4 =>
                              \E i \in DOMAIN a.strengths : a.strengths[i] = tag
               ELSE TagsOf(a) \cap TypeTags = {}
C31_Witness ==
    \E s \in Completed :
        /\ submissions[s].feedback_data.feedback_type = "clarity"
        /\ submissions[s].feedback_data.rating = 3
        /\ submissions[s].feedback_data.comment = "inaccurate"
        /\ submissions[s].analysis.improvement_areas =
               <<"clarity improvement needed", "improvement needed">>

\* ---------------------------------------------------------------------------
\* Extraction of the generated text.
\* ---------------------------------------------------------------------------
\* The first field present, in the one order of the claim.
FirstPresent(result) ==
    IF HasMessageContent(result) THEN "choices[0].message.content"
    ELSE IF HasChoiceText(result) THEN "choices[0].text"
    ELSE IF result.completion THEN "completion"
    ELSE IF result.text THEN "text"
    ELSE IF result.generated_text THEN "generated_text"
    ELSE IF result.output THEN "output"
    ELSE Serialized

\* C32: _extract_generated_text probes the response in one fixed order
\* (chat-completion content, completion-style field, text, generated_text,
\* output) and returns the first field present, for every model name; only
\* when none is present does it return the serialized response.
C32_FixedProbeOrder ==
    extraction.pc = "done" =>
        extraction.returned = FirstPresent(extraction.result)

\* ---------------------------------------------------------------------------
\* Test mode.
\* ---------------------------------------------------------------------------
\* The credential a call is made with: its override if given, else the
\* configured default.
EffectiveCredential(c) ==
    IF Truthy(calls[c].key) THEN calls[c].key ELSE default_key
HasTestPrefix(k) == Len(k) > 0 /\ k[1] \in {"sk-test", "sk-dummy"}
Started(c) == calls[c].pc # "idle"

\* C33: a call whose effective credential starts with the test prefix issues
\* no network call and returns the mock text; a call whose effective
\* credential does not start with it never returns the mock text.
C33_TestModeByEffectiveKey ==
    \A c \in Calls : Started(c) =>
        IF HasTestPrefix(EffectiveCredential(c))
        THEN /\ calls[c].pc = "done" /\ calls[c].outcome = "mock"
             /\ calls[c].sent = None
        ELSE /\ calls[c].outcome # "mock"
             /\ calls[c].sent # None
C33_Witness ==
    /\ default_key = ServerLive
    /\ \E c, d \in Calls :
           /\ calls[c].key = <<"sk-test", "c3">> /\ calls[c].outcome = "mock"
           /\ calls[d].key = None /\ calls[d].outcome = "returned"

\* ---------------------------------------------------------------------------
\* Knowledge records in the reasoning stage.
\* ---------------------------------------------------------------------------
HoldsRecords(knowledge_context) ==
    \E i \in 1..Len(RelevantInfo(knowledge_context)) :
        RelevantInfo(knowledge_context)[i] = RecordEntry
AllObjects(call) ==
    \A j \in 1..Len(call.outcomes) : call.outcomes[j] = "object"

\* C34: for a knowledge context whose relevant_info holds the records
\* retrieve_knowledge builds, and an LLM that answers every step with a valid
\* JSON object, analyze performs all four LLM steps and returns the result
\* derived from the four answers, not the whole-stage fallback.
C34_RecordsReachAllSteps ==
    (/\ analysis.pc = "done"
     /\ HoldsRecords(analysis.knowledge_context)
     /\ AllObjects(analysis)) =>
        /\ ~analysis.fell_back /\ ~analysis.raised
        /\ Len(analysis.llm_calls) = 4
        /\ analysis.result =
               ReasoningResult([n \in 1..4 |-> LLMObject(n)])

\* ---------------------------------------------------------------------------
\* Metadata of overlapping requests.
\* ---------------------------------------------------------------------------
Responded(r) == requests[r].pc = "responded"

\* C35: with two requests in flight on the shared protocol instances, the
\* used_knowledge and reasoning_steps of a response are those computed for
\* its own request: its own sources, and its own chain of steps once, with no
\* step of the other request.
C35_MetadataOfOwnRequest ==
    \A r \in DOMAIN requests : Responded(r) =>
        LET meta == requests[r].response.metadata
        IN /\ meta.used_knowledge = r
           /\ \A i \in 1..Len(meta.reasoning_steps) : meta.reasoning_steps[i] = r
           /\ requests[r].reasoning_result[3] = "analysis" =>
                  meta.reasoning_steps = <<r>>

\* ---------------------------------------------------------------------------
\* The inputs of generate().
\* ---------------------------------------------------------------------------
\* C36: generate() leaves its inputs unchanged: in every step of a call,
\* successful or failed, the context and its options map, the reasoning
\* result, the knowledge context and the llm_config override with its options
\* map keep the keys and values they had.
C36_InputsUnchanged == [][inputs' = inputs]_vars
C36_Witness ==
    /\ calls[1].pc = "done" /\ calls[1].outcome = "raised"
    /\ DictTruthy(DictGet(inputs[1].context, "options"))
    /\ DictTruthy(DictGet(inputs[1].llm_config, "options"))
    /\ calls[1].args.options # DictGet(inputs[1].context, "options")

\* ---------------------------------------------------------------------------
\* API keys and endpoints.
\* ---------------------------------------------------------------------------
Usable(k, time) == k.is_active /\ k.expires_at > time
\* The request that arrives in this step.
Arrives == endpoint_call.pc = "idle" /\ endpoint_call'.pc = "done"
\* The request carries the token of a stored key that is revoked or expired.
CarriesDeadKey ==
    \E n \in 1..Len(api_keys) :
        /\ endpoint_call'.presented = api_keys[n].api_key
        /\ ~Usable(api_keys[n], now)

\* C37: a created key verifies for as long as it is active and unexpired and
\* not otherwise; a key that revoke_key has deactivated stays deactivated and
\* does not verify in any later state; every endpoint behind get_api_key
\* answers 401 to a revoked or expired key.
C37_KeyLifecycle ==
    /\ [](\A n \in 1..Len(api_keys) :
             verify_api_key(api_keys, now, api_keys[n].api_key) =
                 IF Usable(api_keys[n], now) THEN api_keys[n] ELSE NoKey)
    /\ [][\A n \in 1..Len(api_keys) :
             ~api_keys[n].is_active =>
                 /\ n <= Len(api_keys')
                 /\ ~api_keys'[n].is_active
                 /\ verify_api_key(api_keys', now', api_keys[n].api_key) = NoKey]_vars
    /\ [][(Arrives /\ endpoint_call'.checked /\ CarriesDeadKey) =>
              endpoint_call'.status = 401]_vars
C37_Witness ==
    /\ Len(api_keys) = 2
    /\ ~api_keys[1].is_active /\ api_keys[1].expires_at > now
    /\ api_keys[2].is_active /\ api_keys[2].expires_at <= now
    /\ endpoint_call.pc = "done" /\ endpoint_call.endpoint = "POST /generate"
    /\ endpoint_call.presented = api_keys[1].api_key
    /\ endpoint_call.status = 401

FeedbackEndpoints ==
    {"POST /feedback", "GET /feedback/{feedback_id}",
     "GET /feedback/request/{request_id}"}

\* C38: every feedback endpoint answers a request that carries no valid API
\* key with 401 or 403 and returns no feedback data to it.
C38_FeedbackNeedsKey ==
    [][(/\ Arrives
        /\ endpoint_call'.endpoint \in FeedbackEndpoints
        /\ get_api_key(api_keys, now, endpoint_call'.presented) # 0) =>
           /\ endpoint_call'.status \in {401, 403}
           /\ endpoint_call'.data = "none"]_vars

\* C39: a feedback submission whose rating is outside 1..5 is answered with
\* HTTP 400 and stores no feedback.
C39_ValidationAnswers400 ==
    (/\ endpoint_call.pc = "done"
     /\ endpoint_call.endpoint = "POST /feedback"
     /\ endpoint_call.status # 401
     /\ endpoint_call.rating \notin RatingScale) =>
        /\ endpoint_call.status = 400
        /\ ~endpoint_call.stored

\* The /chat half of C39: a request without a user message is answered with
\* 400 and no stage is called.
ChatWithoutUserAnswers400 ==
    \A r \in DOMAIN requests :
        (requests[r].endpoint = "chat" /\ ~requests[r].has_user
         /\ requests[r].pc # "new") =>
            /\ requests[r].status = 400
            /\ requests[r].log = <<>>

====
